---- MODULE Spec2Model ----
(***************************************************************************)
(* Model of src/src/app/application.ts (compodoc's Application): the build *)
(* orchestration and the watch-mode incremental rebuild engine.            *)
(*                                                                         *)
(* Two specifications share the module's variables:                        *)
(*   SpecWatch  the Watch Coordinator of runWatch: chokidar events, the    *)
(*              two debounce timers, and the rebuilds they start, each     *)
(*              rebuild advancing through its asynchronous stages;         *)
(*   SpecPlan   the Symbol Registry and the Page Planner: a project on     *)
(*              disk, a full build (init + prepareEverything) and          *)
(*              micro-rebuilds (update + prepareJustAFewThings).           *)
(***************************************************************************)
EXTENDS Integers, Sequences, FiniteSets, Bags, TLC

VARIABLES
    \* ---- Watch Coordinator (Application fields and runWatch locals)
    watchChangedFiles,    \* this.watchChangedFiles
    updatedFiles,         \* this.updatedFiles
    aliased,              \* updatedFiles and watchChangedFiles are one array object
    timerAddAndRemoveRef, \* ms left on the structural timer, -1 when not armed
    timerChangeRef,       \* ms left on the content timer, -1 when not armed
    builds,               \* the rebuilds in flight, each at one stage (a bag)
    disableGraph,         \* configuration.mainData.disableGraph
    includes,             \* configuration.mainData.includes !== ''
    \* ---- history of the watch run (read by the properties only)
    sinceChange,          \* ms since the last 'change' event of the open burst, -1: none open
    sinceAddRemove,       \* ms since the last 'add'/'unlink' event of the open burst
    changeRuns,           \* runnerChange firings of the open burst
    generateRuns,         \* runnerAddAndRemove firings of the open burst
    changeBurst,          \* 'change' events of the open burst: 0, 1, 2 for more
    addRemoveBurst,       \* 'add'/'unlink' events of the open burst: 0, 1, 2 for more
    consumedLen,          \* entries of watchChangedFiles a runnerChange has consumed
    failedFiles,          \* history: the changed files of a rebuild whose step list rejected
                          \* are "kept" while they are in watchChangedFiles and "cleared" once
                          \* they were dropped; "none" before a rejection and after the next
                          \* runnerChange; "unrecorded" where no history is kept
    \* ---- Symbol Registry and Page Planner
    disk,                 \* the project's files: file -> entries the crawler reports
    engine,               \* dependenciesEngine: the current SymbolCollection
    mainData,             \* configuration.mainData: the collections handed to the stages
    pages,                \* configuration.pages
    lastDiff,             \* the crawl result of the last build (full or partial)
    planMode,             \* "none", "full" or "micro": the last build path taken
    rebuilds,             \* micro-rebuilds run so far
    \* ---- Root-markdown ingestion (processMarkdowns)
    rootMarkdowns,        \* the root markdown files the project has
    markdownIndex,        \* processMarkdowns' loop variable i
    markdownsList,        \* configuration.mainData.markdowns
    readme,               \* configuration.mainData.readme
    markdownsSettled,     \* "pending", or how processMarkdowns' promise settled
    \* ---- Graph stage (processGraphs)
    rawModules,           \* the modules of the project, as crawled
    moduleGraphs,         \* modules[i].graph: module name -> graph attached or not
    graphIndex,           \* processGraphs' loop variable i
    graphStep,            \* the callback the graph stage is waiting for
    disableMainGraph,     \* configuration.mainData.disableMainGraph
    mainGraph,            \* configuration.mainData.mainGraph is set
    renderCalls,          \* ngdEngine.renderGraph invocations of the current build
    graphBuilds,          \* processGraphs invocations so far
    \* ---- Render & index stage (processPages, processAdditionalPages)
    additionalPages,      \* configuration.mainData.additionalPages
    renderPhase,          \* "regular" or "additional": the page list being processed
    writes,               \* fileEngine.write of each page of the phase
    aggregate,            \* the Promise.all of the phase
    renderStep,           \* what the stage is waiting for, or how it ended
    searchIndex,          \* searchEngine: the documents indexed so far
    persisted,            \* the search index written to the output folder
    persists,             \* generateSearchIndexJson calls that have resolved
    logged,               \* logger.error calls of the stage
    \* ---- The build as a whole (generate ... onComplete)
    options,              \* configuration.mainData: the options of the run
    buildStep,            \* the callback the build is waiting for, or how it ended
    listeners,            \* pairs of fatal-error listeners installed on process
    completion,           \* generationPromise: "pending", "resolved" or "rejected"
    isWatching,           \* this.isWatching
    served,               \* LiveServer.start calls
    modulesLeft,          \* modules whose graph is still to be rendered
    stageLog,             \* what the current build has done so far, in order
    fatalFailure,         \* a failure other than the tolerated ones has occurred
    generateCalls,        \* generate() calls so far
    \* ---- Component planning (prepareComponents, handleTemplateurl)
    components,           \* configuration.mainData.components
    compIndex,            \* prepareComponents' loop variable i
    compStep,             \* what prepareComponents is waiting for, or how it ended
    compPages,            \* the component pages added to configuration.pages
    compLogged,           \* logger.error calls of the step
    \* ---- The content rebuilds of the watcher (runnerChange and its three paths)
    rebuildPath,          \* the path runnerChange took last
    rebuildStep,          \* what the rebuild is waiting for
    rebuildCalls,         \* the calls the current rebuild has made, in order
    pathsDone,            \* the paths whose rebuild has run to its end
    \* ---- Graph stages of overlapping builds (processGraphs, one closure per call)
    graphRuns,            \* per processGraphs call in flight: its step and its i
    \* ---- External-include ingestion (prepareExternalIncludes)
    summaryJson,          \* summary.json of the includes folder: its entries, or missing
    incIndex,             \* prepareExternalIncludes' loop variable i
    incChild,             \* loopChild's variable j
    incStep               \* the read prepareExternalIncludes waits for, or how it ended

watchVars == <<watchChangedFiles, updatedFiles, aliased, timerAddAndRemoveRef,
               timerChangeRef, builds, disableGraph, includes, sinceChange,
               sinceAddRemove, changeRuns, generateRuns, changeBurst, addRemoveBurst,
               consumedLen, failedFiles>>
planVars == <<disk, engine, mainData, pages, lastDiff, planMode, rebuilds>>
markdownVars == <<rootMarkdowns, markdownIndex, markdownsList, readme, markdownsSettled>>
graphVars == <<rawModules, moduleGraphs, graphIndex, graphStep, disableMainGraph,
               mainGraph, renderCalls, graphBuilds>>
renderVars == <<additionalPages, renderPhase, writes, aggregate, renderStep,
                searchIndex, persisted, persists, logged>>
buildVars == <<options, buildStep, listeners, completion, isWatching, served,
               modulesLeft, stageLog, fatalFailure, generateCalls>>
componentVars == <<components, compIndex, compStep, compPages, compLogged>>
rebuildVars == <<rebuildPath, rebuildStep, rebuildCalls, pathsDone>>
graphRunVars == <<graphRuns>>
includeVars == <<summaryJson, incIndex, incChild, incStep>>
finalVars == <<graphRunVars, includeVars>>
laterVars == <<buildVars, componentVars, rebuildVars, finalVars>>
stageVars == <<markdownVars, graphVars, renderVars, laterVars>>
vars == <<watchVars, planVars, stageVars>>

\* The variables of the stages, when the specification at hand does not run them.
MarkdownsIdle ==
    /\ rootMarkdowns = {}
    /\ markdownIndex = 0
    /\ markdownsList = <<>>
    /\ readme = FALSE
    /\ markdownsSettled = "pending"

GraphsIdle ==
    /\ rawModules = <<>>
    /\ moduleGraphs = <<>>
    /\ graphIndex = 0
    /\ graphStep = "idle"
    /\ disableMainGraph = FALSE
    /\ mainGraph = FALSE
    /\ renderCalls = <<>>
    /\ graphBuilds = 0

RenderIdle ==
    /\ additionalPages = <<>>
    /\ renderPhase = "regular"
    /\ writes = <<>>
    /\ aggregate = "pending"
    /\ renderStep = "idle"
    /\ searchIndex = {}
    /\ persisted = {}
    /\ persists = 0
    /\ logged = <<>>

BuildIdle ==
    /\ options = <<>>
    /\ buildStep = "idle"
    /\ listeners = 0
    /\ completion = "pending"
    /\ isWatching = FALSE
    /\ served = 0
    /\ modulesLeft = 0
    /\ stageLog = <<>>
    /\ fatalFailure = FALSE
    /\ generateCalls = 0

ComponentsIdle ==
    /\ components = <<>>
    /\ compIndex = 0
    /\ compStep = "idle"
    /\ compPages = <<>>
    /\ compLogged = <<>>

RebuildIdle ==
    /\ rebuildPath = "none"
    /\ rebuildStep = "idle"
    /\ rebuildCalls = <<>>
    /\ pathsDone = {}

GraphRunsIdle == graphRuns = <<>>

IncludesIdle ==
    /\ summaryJson = [found |-> FALSE, entries |-> <<>>]
    /\ incIndex = 0
    /\ incChild = 0
    /\ incStep = "idle"

FinalIdle == GraphRunsIdle /\ IncludesIdle

LaterIdle == BuildIdle /\ ComponentsIdle /\ RebuildIdle /\ FinalIdle

StagesIdle == MarkdownsIdle /\ GraphsIdle /\ RenderIdle /\ LaterIdle

(***************************************************************************)
(* Bounds of the model.                                                    *)
(***************************************************************************)
MaxInFlight == 2    \* rebuilds in flight at once
MaxChanged == 2     \* length of watchChangedFiles
MaxRebuilds == 2    \* micro-rebuilds after the full build
MaxModules == 2     \* modules of the project in the graph stage
MaxPages == 2       \* pages of one phase of the render stage
MaxComponents == 2  \* components of the project in component planning

(***************************************************************************)
(* Paths.  A path is a directory (a sequence of segments) and a file name  *)
(* split into stem and extension, which is what path.dirname and           *)
(* path.extname take apart.                                                *)
(***************************************************************************)
Cwd == <<"proj">>

File(dir, stem, ext) == [dir |-> dir, stem |-> stem, ext |-> ext]

\* path.join(process.cwd() + path.sep + file)
JoinCwd(file) == [file EXCEPT !.dir = Cwd \o file.dir]

extname(p) == p.ext

dirname(p) == p.dir

\* The files chokidar reports, relative to the working directory: a source
\* file, a root markdown file, a markdown file of the includes folder, its
\* summary.json, and a file of an extension the handlers ignore.
SrcA == File(<<"src">>, "a", ".ts")
RootMd == File(<<>>, "README", ".md")
IncMd == File(<<"docs">>, "c", ".md")
SrcHtml == File(<<"src">>, "x", ".html")
EventFiles == {SrcA, RootMd, IncMd, SrcHtml}

\* runWatch's sources: the main source folder, the root markdown files and,
\* when one is configured, the includes folder.
Sources == IF includes THEN EventFiles ELSE EventFiles \ {IncMd}

Range(s) == {s[i] : i \in 1..Len(s)}

(***************************************************************************)
(* hasWatchedFilesTSFiles / hasWatchedFilesRootMarkdownFiles: the forEach  *)
(* loops over updatedFiles, as folds.                                      *)
(***************************************************************************)
RECURSIVE ScanTS(_, _, _)
ScanTS(files, i, result) ==
    IF i > Len(files) THEN result
    ELSE ScanTS(files, i + 1,
                IF extname(files[i]) = ".ts" THEN TRUE ELSE result)

hasWatchedFilesTSFiles(files) == ScanTS(files, 1, FALSE)

RECURSIVE ScanRootMd(_, _, _)
ScanRootMd(files, i, result) ==
    IF i > Len(files) THEN result
    ELSE ScanRootMd(files, i + 1,
                    IF extname(files[i]) = ".md" /\ dirname(files[i]) = Cwd
                    THEN TRUE ELSE result)

hasWatchedFilesRootMarkdownFiles(files) == ScanRootMd(files, 1, FALSE)

\* runnerChange's if / else if / else: the one rebuild path it calls.
RunnerChangePathSwapped(files) ==
    IF hasWatchedFilesRootMarkdownFiles(files) THEN "rootmd"
    ELSE IF hasWatchedFilesTSFiles(files) THEN "micro"
    ELSE "extdocs"

RunnerChangePath(files) ==
    IF hasWatchedFilesTSFiles(files) THEN "micro"
    ELSE IF hasWatchedFilesRootMarkdownFiles(files) THEN "rootmd"
    ELSE "extdocs"

(***************************************************************************)
(* Timers.  Time advances in steps of Quantum; a timer holds the ms left   *)
(* until its callback runs.                                                *)
(***************************************************************************)
AddRemoveDelay == 1000
ChangeDelay == 1000
Quantum == ChangeDelay \div 2
NotArmed == 0 - 1

\* A burst is a run of events each less than the window after the previous
\* one.  The history clocks stop at the length of the window.
BurstOver(since, delay) == since = NotArmed \/ since >= delay

Elapse(since, delay) == IF BurstOver(since, delay) THEN since ELSE since + Quantum

CountDown(t) == IF t = NotArmed THEN NotArmed ELSE t - Quantum

\* waiterChange / waiterAddAndRemove: clearTimeout(ref); ref = setTimeout(runner, delay)
WaiterKeepsTimer(ref, delay) == IF ref = NotArmed THEN delay ELSE ref

Waiter(ref, delay) == delay

(***************************************************************************)
(* Rebuilds in flight.  A rebuild is a record                              *)
(*   kind    "full" (generate), "micro" (getMicroDependenciesData),        *)
(*           "rootmd" (rebuildRootMarkdowns), "extdocs"                    *)
(*           (rebuildExternalDocumentation);                               *)
(*   phase   the asynchronous stage it is waiting on:                      *)
(*           "start"    htmlEngine.init, package.json, root markdowns      *)
(*           "prepare"  the promiseSequential list of prepare steps        *)
(*           "graphs"   processGraphs                                      *)
(*           "render"   processPages and what it chains: the page writes,  *)
(*                      the search index, the additional pages and their   *)
(*                      index, processResources up to onComplete           *)
(*   cleared whether the rebuild has run clearUpdatedFiles.                *)
(* builds is the bag of the rebuilds whose last callback has not run yet.  *)
(***************************************************************************)
Build(kind, phase) == [kind |-> kind, phase |-> phase, cleared |-> FALSE]

InFlight == BagCardinality(builds)

Started(b) == builds (+) SetToBag({b})

Moved(b, c) == (builds (-) SetToBag({b})) (+) SetToBag({c})

Ended(b) == builds (-) SetToBag({b})

\* processGraphs: with graphs disabled it calls processPages at once.
AfterProcessGraphs == IF disableGraph THEN "render" ELSE "graphs"

\* No timer callback is due: Node runs expired timers before it polls for
\* I/O events, and time does not pass over a due timer.
NoTimerDue == timerChangeRef # 0 /\ timerAddAndRemoveRef # 0

WatchIdlePlan ==
    /\ disk = <<>>
    /\ engine = <<>>
    /\ mainData = <<>>
    /\ pages = <<>>
    /\ lastDiff = <<>>
    /\ planMode = "none"
    /\ rebuilds = 0

\* The state when the watcher has reported 'ready' after the first build, with
\* graphs enabled (the default configuration).
WatcherReady ==
    /\ watchChangedFiles = <<>>
    /\ updatedFiles = <<>>
    /\ aliased = FALSE
    /\ timerAddAndRemoveRef = NotArmed
    /\ timerChangeRef = NotArmed
    /\ builds = EmptyBag
    /\ disableGraph = FALSE
    /\ includes \in BOOLEAN
    /\ sinceChange = NotArmed
    /\ sinceAddRemove = NotArmed
    /\ changeRuns = 0
    /\ generateRuns = 0
    /\ changeBurst = 0
    /\ addRemoveBurst = 0
    /\ consumedLen = 0
    /\ WatchIdlePlan
    /\ StagesIdle

InitWatch == WatcherReady /\ failedFiles = "unrecorded"

\* The same state with the history of the rejected step lists recorded.
InitWatchHistory == WatcherReady /\ failedFiles = "none"

\* Time passes by one quantum.
Tick ==
    /\ NoTimerDue
    /\ timerChangeRef' = CountDown(timerChangeRef)
    /\ timerAddAndRemoveRef' = CountDown(timerAddAndRemoveRef)
    /\ sinceChange' = Elapse(sinceChange, ChangeDelay)
    /\ sinceAddRemove' = Elapse(sinceAddRemove, AddRemoveDelay)
    /\ UNCHANGED <<watchChangedFiles, updatedFiles, aliased, builds, disableGraph,
                   includes, changeRuns, generateRuns, changeBurst, addRemoveBurst, consumedLen, failedFiles,
                   planVars, stageVars>>

\* The extensions the 'change' handler accepts.
ChangeAccepted(file) == extname(file) \in {".ts", ".md", ".json"}

\* The extensions the 'add' and 'unlink' handlers accept.
StructuralAcceptedAny(file) == TRUE

StructuralAccepted(file) == extname(file) = ".ts"

\* The events the history clocks count: a change of a .ts, .md or .json file,
\* an add or unlink of a .ts file.
TrackedChange(file) == file.ext \in {".ts", ".md", ".json"}

TrackedStructural(file) == file.ext = ".ts"

\* An event starts a new burst when the window has passed since the last one.
NewBurst(since, delay) == BurstOver(since, delay)

CountEvent(n) == IF n < 2 THEN n + 1 ELSE n

\* watcher.on('change')
OnChange(file) ==
    /\ NoTimerDue
    /\ IF ChangeAccepted(file)
       THEN /\ Len(watchChangedFiles) < MaxChanged
            /\ watchChangedFiles' = Append(watchChangedFiles, JoinCwd(file))
            /\ updatedFiles' = IF aliased THEN Append(updatedFiles, JoinCwd(file))
                               ELSE updatedFiles
            /\ timerChangeRef' = Waiter(timerChangeRef, ChangeDelay)
       ELSE UNCHANGED <<watchChangedFiles, updatedFiles, timerChangeRef>>
    /\ IF TrackedChange(file)
       THEN /\ changeRuns' = IF NewBurst(sinceChange, ChangeDelay) THEN 0
                             ELSE changeRuns
            /\ changeBurst' = IF NewBurst(sinceChange, ChangeDelay) THEN 1
                              ELSE CountEvent(changeBurst)
            /\ sinceChange' = 0
       ELSE UNCHANGED <<changeRuns, sinceChange, changeBurst>>
    /\ UNCHANGED <<aliased, timerAddAndRemoveRef, builds, disableGraph, includes,
                   sinceAddRemove, generateRuns, consumedLen, failedFiles, addRemoveBurst,
                   planVars, stageVars>>

\* watcher.on('add') and watcher.on('unlink'): the two handlers are the same.
OnAddOrUnlink(file) ==
    /\ NoTimerDue
    /\ timerAddAndRemoveRef' = IF StructuralAccepted(file)
                               THEN Waiter(timerAddAndRemoveRef, AddRemoveDelay)
                               ELSE timerAddAndRemoveRef
    /\ IF TrackedStructural(file)
       THEN /\ generateRuns' = IF NewBurst(sinceAddRemove, AddRemoveDelay) THEN 0
                               ELSE generateRuns
            /\ addRemoveBurst' = IF NewBurst(sinceAddRemove, AddRemoveDelay) THEN 1
                                 ELSE CountEvent(addRemoveBurst)
            /\ sinceAddRemove' = 0
       ELSE UNCHANGED <<generateRuns, addRemoveBurst, sinceAddRemove>>
    /\ UNCHANGED changeBurst
    /\ UNCHANGED <<watchChangedFiles, updatedFiles, aliased, timerChangeRef, builds,
                   disableGraph, includes, sinceChange, changeRuns, consumedLen, failedFiles, planVars, stageVars>>

\* clearUpdatedFiles
ClearedFiles == <<>>

\* generate(): the pipeline it starts, at its first asynchronous stage.
Generate == Build("full", "start")

\* runnerAddAndRemove
RunnerAddAndRemove ==
    /\ timerAddAndRemoveRef = 0
    /\ InFlight < MaxInFlight
    /\ timerAddAndRemoveRef' = NotArmed
    /\ builds' = Started(Generate)
    /\ generateRuns' = generateRuns + 1
    /\ UNCHANGED <<watchChangedFiles, updatedFiles, aliased, timerChangeRef,
                   disableGraph, includes, sinceChange, sinceAddRemove, changeRuns,
                   consumedLen, failedFiles, changeBurst, addRemoveBurst, planVars, stageVars>>

\* rebuildExternalDocumentation with no includes folder: the step list is empty,
\* so its then-callback (processPages, clearUpdatedFiles) runs in the same turn
\* of the event loop, before any watcher event.
ExtDocsNoSteps(kind) == kind = "extdocs" /\ ~includes

\* runnerChange: setUpdatedFiles(this.watchChangedFiles), then one of the three
\* content rebuild paths.
RunnerChange ==
    /\ timerChangeRef = 0
    /\ InFlight < MaxInFlight
    /\ timerChangeRef' = NotArmed
    /\ LET kind == RunnerChangePath(watchChangedFiles) IN
         IF ExtDocsNoSteps(kind)
         THEN /\ builds' = Started([Build(kind, "render") EXCEPT !.cleared = TRUE])
              /\ updatedFiles' = ClearedFiles
              /\ watchChangedFiles' = ClearedFiles
              /\ aliased' = FALSE
              /\ consumedLen' = 0
         ELSE /\ builds' = Started(Build(kind, "prepare"))
              /\ updatedFiles' = watchChangedFiles
              /\ aliased' = TRUE
              /\ consumedLen' = Len(watchChangedFiles)
              /\ UNCHANGED watchChangedFiles
    /\ changeRuns' = changeRuns + 1
    /\ failedFiles' = IF failedFiles = "unrecorded" THEN failedFiles ELSE "none"
    /\ UNCHANGED <<timerAddAndRemoveRef, disableGraph, includes, sinceChange,
                   sinceAddRemove, generateRuns, changeBurst, addRemoveBurst,
                   planVars, stageVars>>

\* generate's chain up to getDependenciesData, which crawls this.files, calls
\* dependenciesEngine.init and starts prepareEverything's step list.
GetDependenciesDataStep(b) ==
    /\ b.kind = "full"
    /\ b.phase = "start"
    /\ builds' = Moved(b, [b EXCEPT !.phase = "prepare"])
    /\ UNCHANGED <<watchChangedFiles, updatedFiles, aliased, timerAddAndRemoveRef,
                   timerChangeRef, disableGraph, includes, sinceChange,
                   sinceAddRemove, changeRuns, generateRuns, consumedLen, failedFiles,
                   changeBurst, addRemoveBurst, planVars, stageVars>>

\* The then-callback of a step list: prepareEverything goes on to
\* processGraphs; prepareJustAFewThings calls processGraphs and then
\* clearUpdatedFiles; the two other rebuilds call processPages and then
\* clearUpdatedFiles.
ClearsAfterPrepare(kind) == kind # "full"

PrepareDone(b) ==
    /\ b.phase = "prepare"
    /\ LET next == IF b.kind \in {"full", "micro"} THEN AfterProcessGraphs
                   ELSE "render"
       IN builds' = Moved(b, [b EXCEPT !.phase = next,
                                       !.cleared = ClearsAfterPrepare(b.kind)])
    /\ IF ClearsAfterPrepare(b.kind)
       THEN /\ updatedFiles' = ClearedFiles
            /\ watchChangedFiles' = ClearedFiles
            /\ aliased' = FALSE
            /\ consumedLen' = 0
            /\ failedFiles' = IF failedFiles = "kept" THEN "cleared" ELSE failedFiles
       ELSE UNCHANGED <<updatedFiles, watchChangedFiles, aliased, consumedLen, failedFiles>>
    /\ UNCHANGED <<timerAddAndRemoveRef, timerChangeRef, disableGraph, includes,
                   sinceChange, sinceAddRemove, changeRuns, generateRuns,
                   changeBurst, addRemoveBurst, planVars, stageVars>>

\* processGraphs' loop has read back the last module graph and calls
\* processPages.
GraphsDone(b) ==
    /\ b.phase = "graphs"
    /\ builds' = Moved(b, [b EXCEPT !.phase = "render"])
    /\ UNCHANGED <<watchChangedFiles, updatedFiles, aliased, timerAddAndRemoveRef,
                   timerChangeRef, disableGraph, includes, sinceChange,
                   sinceAddRemove, changeRuns, generateRuns, consumedLen, failedFiles,
                   changeBurst, addRemoveBurst, planVars, stageVars>>

\* The pages are written, the search index is persisted, the resources are
\* copied and processResources' onComplete has run: in watch mode its
\* runWebServer starts nothing new.
FinalizeDone(b) ==
    /\ b.phase = "render"
    /\ builds' = Ended(b)
    /\ UNCHANGED <<watchChangedFiles, updatedFiles, aliased, timerAddAndRemoveRef,
                   timerChangeRef, disableGraph, includes, sinceChange,
                   sinceAddRemove, changeRuns, generateRuns, consumedLen, failedFiles,
                   changeBurst, addRemoveBurst, planVars, stageVars>>

\* A stage fails: the error is logged and no later callback of the rebuild
\* runs.  processMarkdowns never rejects, so the root-markdown rebuild and the
\* start of generate cannot fail before their step list has completed.
CanFail(b) ==
    /\ b.phase # "start"
    /\ ~(b.kind = "rootmd" /\ b.phase = "prepare")

StageFail(b) ==
    /\ CanFail(b)
    /\ builds' = Ended(b)
    /\ failedFiles' = IF b.kind # "full" /\ b.phase = "prepare" /\ failedFiles = "none"
                         /\ Len(watchChangedFiles) > 0
                      THEN "kept" ELSE failedFiles
    /\ UNCHANGED <<watchChangedFiles, updatedFiles, aliased, timerAddAndRemoveRef,
                   timerChangeRef, disableGraph, includes, sinceChange,
                   sinceAddRemove, changeRuns, generateRuns, consumedLen,
                   changeBurst, addRemoveBurst, planVars, stageVars>>

NextWatch ==
    \/ Tick
    \/ \E file \in Sources : OnChange(file)
    \/ \E file \in Sources : OnAddOrUnlink(file)
    \/ RunnerAddAndRemove
    \/ RunnerChange
    \/ \E b \in BagToSet(builds) : GetDependenciesDataStep(b)
    \/ \E b \in BagToSet(builds) : PrepareDone(b)
    \/ \E b \in BagToSet(builds) : GraphsDone(b)
    \/ \E b \in BagToSet(builds) : FinalizeDone(b)
    \/ \E b \in BagToSet(builds) : StageFail(b)

SpecWatch == InitWatch /\ [][NextWatch]_vars

SpecWatchHistory == InitWatchHistory /\ [][NextWatch]_vars

(***************************************************************************)
(* Symbol Registry and Page Planner (SpecPlan).                            *)
(*                                                                         *)
(* A SymbolCollection maps each group to the sequence of its entries.  The *)
(* crawler (Dependencies), the registry (DependenciesEngine) and the page  *)
(* list (Configuration) are collaborators of the Application; they are     *)
(* modelled here by what the Application relies on.  In this specification *)
(* coverage is disabled, no includes folder is configured and no component *)
(* has a templateUrl.                                                      *)
(***************************************************************************)
ListSections == <<"modules", "components", "directives", "injectables", "pipes",
                  "classes", "interfaces">>

\* The order in which prepareMiscellaneous looks at the groups.
MiscGroups == <<"functions", "variables", "typealiases", "enumerations">>

Groups == Range(ListSections) \cup {"routes"} \cup Range(MiscGroups)

\* The group the crawler files an entry of a type under.
GroupOf(type) ==
    CASE type = "module" -> "modules"
      [] type = "component" -> "components"
      [] type = "directive" -> "directives"
      [] type = "injectable" -> "injectables"
      [] type = "pipe" -> "pipes"
      [] type = "class" -> "classes"
      [] type = "interface" -> "interfaces"
      [] type = "route" -> "routes"
      [] type = "variable" -> "variables"
      [] type = "function" -> "functions"
      [] type = "typealias" -> "typealiases"
      [] type = "enumeration" -> "enumerations"

\* The context tag the prepare function of a section gives its item pages.
ContextOf(g) ==
    CASE g = "modules" -> "module"
      [] g = "components" -> "component"
      [] g = "directives" -> "directive"
      [] g = "injectables" -> "injectable"
      [] g = "pipes" -> "pipe"
      [] g = "classes" -> "class"
      [] g = "interfaces" -> "interface"

Entry(type, name, file) ==
    [type |-> type, name |-> name, file |-> file, id |-> type \o "-" \o name]

\* A reference of a module's metadata lists.
Ref(name, type) == [name |-> name, type |-> type]

NgModule(name, file, declarations, bootstrap, imports, exports, providers) ==
    [type |-> "module", name |-> name, file |-> file, id |-> "module-" \o name,
     declarations |-> declarations, bootstrap |-> bootstrap, imports |-> imports,
     exports |-> exports, providers |-> providers]

\* The project: three source files and what each of them can contain.
Files == <<"a.ts", "b.ts", "m.ts">>

CompFoo == Entry("component", "Foo", "a.ts")
DirFoo == Entry("directive", "Foo", "a.ts")
PipeBar == Entry("pipe", "Bar", "a.ts")
InjSvc == Entry("injectable", "Svc", "a.ts")
ClassHelper == Entry("class", "Helper", "a.ts")
\* A class of a.ts with the name of b.ts's class.
ClassK == Entry("class", "K", "a.ts")

ContentsA ==
    {<<>>, <<CompFoo>>, <<DirFoo>>, <<PipeBar>>, <<InjSvc>>, <<CompFoo, InjSvc>>,
     <<ClassHelper>>, <<ClassK>>}

ContentsB ==
    {<<>>} \cup
    {<<Entry(t, "K", "b.ts")>> :
        t \in {"class", "interface", "route", "variable", "function", "typealias",
               "enumeration"}}

\* AppModule refers to entries of a.ts and b.ts, to a module of its own file
\* and to a module and a provider the project never contains.
AppModule ==
    NgModule("AppModule", "m.ts",
             <<Ref("Foo", "component"), Ref("Foo", "directive"), Ref("Bar", "pipe"),
               Ref("K", "class")>>,
             <<Ref("Foo", "component")>>,
             <<Ref("CoreModule", "module"), Ref("LibModule", "module")>>,
             <<Ref("Bar", "pipe"), Ref("K", "class")>>,
             <<Ref("Svc", "injectable"), Ref("Gone", "injectable")>>)

CoreModule == NgModule("CoreModule", "m.ts", <<>>, <<>>, <<>>, <<>>, <<>>)

ContentsM == {<<>>, <<AppModule>>, <<AppModule, CoreModule>>}

Contents(file) ==
    CASE file = "a.ts" -> ContentsA
      [] file = "b.ts" -> ContentsB
      [] file = "m.ts" -> ContentsM

EmptyCollection == [g \in Groups |-> <<>>]

\* crawler.getDependencies(): the entries of the crawled files, by group, in
\* file order; the result also records which files were crawled.
RECURSIVE Gather(_, _, _, _)
Gather(d, files, g, i) ==
    IF i > Len(files) THEN <<>>
    ELSE SelectSeq(d[files[i]], LAMBDA e : GroupOf(e.type) = g)
         \o Gather(d, files, g, i + 1)

getDependencies(d, files) ==
    [g \in Groups \cup {"files"} |->
        IF g = "files" THEN Range(files) ELSE Gather(d, files, g, 1)]

\* dependenciesEngine.init: the crawl result replaces the whole collection.
init(data) == [g \in Groups |-> data[g]]

\* dependenciesEngine.update: the entries of the crawled files are replaced by
\* the ones the partial result reports; entries of other files are untouched.
update(coll, data) ==
    [g \in Groups |->
        SelectSeq(coll[g], LAMBDA e : e.file \notin data["files"]) \o data[g]]

(***************************************************************************)
(* Page descriptors.                                                       *)
(***************************************************************************)
ROOT == "root"
INTERNAL == "internal"

RootPage(name) ==
    [name |-> name, id |-> name, context |-> name, depth |-> 0, pageType |-> ROOT]

ItemPage(g, e) ==
    [path |-> g, name |-> e.name, id |-> e.id, context |-> ContextOf(g), depth |-> 1,
     pageType |-> INTERNAL]

MiscPage(group) ==
    [path |-> "miscellaneous", name |-> group, id |-> "miscellaneous-" \o group,
     context |-> "miscellaneous-" \o group, depth |-> 1, pageType |-> INTERNAL]

\* The pages processMarkdowns adds when the project has a README.md and no
\* other root markdown file.
RootMarkdownPages ==
    <<[name |-> "index", id |-> "getting-started", context |-> "getting-started",
       depth |-> 0, pageType |-> ROOT],
      [name |-> "overview", id |-> "overview", context |-> "overview",
       pageType |-> ROOT]>>

\* configuration.addPage / configuration.resetPages
addPage(pgs, page) == Append(pgs, page)

resetPages == <<>>

(***************************************************************************)
(* The prepare steps.  A step maps the build state st, a record of the     *)
(* engine's collection, configuration.mainData and configuration.pages, to *)
(* the build state after the step.                                         *)
(***************************************************************************)
HasName(list, name) == \E i \in 1..Len(list) : list[i].name = name

\* prepareModules' filter of declarations, bootstrap, imports and exports.
RefKeptAlways(r, eng) == TRUE

RefKept(r, eng) ==
    CASE r.type = "directive" -> HasName(eng["directives"], r.name)
      [] r.type = "component" -> HasName(eng["components"], r.name)
      [] r.type = "module" -> HasName(eng["modules"], r.name)
      [] r.type = "pipe" -> HasName(eng["pipes"], r.name)
      [] OTHER -> TRUE

\* prepareModules' filter of providers.
ProviderKept(provider, eng) == HasName(eng["injectables"], provider.name)

FilterModule(ngModule, eng) ==
    [ngModule EXCEPT
        !.declarations = SelectSeq(@, LAMBDA r : RefKept(r, eng)),
        !.bootstrap = SelectSeq(@, LAMBDA r : RefKept(r, eng)),
        !.imports = SelectSeq(@, LAMBDA r : RefKept(r, eng)),
        !.exports = SelectSeq(@, LAMBDA r : RefKept(r, eng)),
        !.providers = SelectSeq(@, LAMBDA r : ProviderKept(r, eng))]

\* The loop of a prepare function: one item page per entry, in order.
RECURSIVE AddItemPages(_, _, _, _)
AddItemPages(pgs, g, items, i) ==
    IF i > Len(items) THEN pgs
    ELSE AddItemPages(addPage(pgs, ItemPage(g, items[i])), g, items, i + 1)

\* prepareModules: the engine's module objects are filtered in place, so the
\* engine holds the filtered lists too.
prepareModules(st) ==
    LET _modules == st.engine["modules"]
        filtered == [i \in 1..Len(_modules) |-> FilterModule(_modules[i], st.engine)]
    IN [st EXCEPT !.engine["modules"] = filtered,
                  !.mainData["modules"] = filtered,
                  !.pages = AddItemPages(addPage(st.pages, RootPage("modules")),
                                         "modules", filtered, 1)]

\* preparePipes, prepareClasses, prepareInterfaces, prepareComponents,
\* prepareDirectives and prepareInjectables have one shape.
PrepareSection(g, st) ==
    [st EXCEPT !.mainData[g] = st.engine[g],
               !.pages = AddItemPages(st.pages, g, st.engine[g], 1)]

preparePipes(st) == PrepareSection("pipes", st)

prepareClasses(st) == PrepareSection("classes", st)

prepareInterfaces(st) == PrepareSection("interfaces", st)

prepareComponents(st) == PrepareSection("components", st)

prepareDirectives(st) == PrepareSection("directives", st)

prepareInjectables(st) == PrepareSection("injectables", st)

RECURSIVE AddMiscPages(_, _, _)
AddMiscPages(pgs, miscellaneous, i) ==
    IF i > Len(MiscGroups) THEN pgs
    ELSE AddMiscPages(IF Len(miscellaneous[MiscGroups[i]]) > 0
                      THEN addPage(pgs, MiscPage(MiscGroups[i]))
                      ELSE pgs,
                      miscellaneous, i + 1)

prepareMiscellaneous(st) ==
    LET data == [g \in Groups |-> IF g \in Range(MiscGroups) THEN st.engine[g]
                                  ELSE st.mainData[g]]
    IN [st EXCEPT !.mainData = data, !.pages = AddMiscPages(st.pages, data, 1)]

prepareRoutesNoPage(st) == [st EXCEPT !.mainData["routes"] = st.engine["routes"]]

prepareRoutes(st) ==
    [st EXCEPT !.mainData["routes"] = st.engine["routes"],
               !.pages = addPage(st.pages, RootPage("routes"))]

HasMiscellaneous(data) ==
    \/ Len(data["variables"]) > 0
    \/ Len(data["functions"]) > 0
    \/ Len(data["typealiases"]) > 0
    \/ Len(data["enumerations"]) > 0

\* prepareEverything: a step is pushed under its condition, and
\* promiseSequential runs the steps in the order they were pushed.
prepareEverything(st) ==
    LET eng == st.engine
        s1 == prepareModules(st)
        s2 == prepareComponents(s1)
        s3 == IF Len(eng["directives"]) > 0 THEN prepareDirectives(s2) ELSE s2
        s4 == IF Len(eng["injectables"]) > 0 THEN prepareInjectables(s3) ELSE s3
        s5 == IF Len(eng["routes"]) > 0 THEN prepareRoutes(s4) ELSE s4
        s6 == IF Len(eng["pipes"]) > 0 THEN preparePipes(s5) ELSE s5
        s7 == IF Len(eng["classes"]) > 0 THEN prepareClasses(s6) ELSE s6
        s8 == IF Len(eng["interfaces"]) > 0 THEN prepareInterfaces(s7) ELSE s7
    IN IF HasMiscellaneous(eng) THEN prepareMiscellaneous(s8) ELSE s8

\* diffCrawledData.<section>.length > 0
InDiffAlways(section) == TRUE

InDiff(section) == Len(section) > 0

prepareJustAFewThings(diffCrawledData, st) ==
    LET s0 == [st EXCEPT !.pages = resetPages]
        s1 == prepareRoutes(s0)
        s2 == IF InDiff(diffCrawledData["modules"]) THEN prepareModules(s1) ELSE s1
        s3 == IF InDiff(diffCrawledData["components"]) THEN prepareComponents(s2) ELSE s2
        s4 == IF InDiff(diffCrawledData["directives"]) THEN prepareDirectives(s3) ELSE s3
        s5 == IF InDiff(diffCrawledData["injectables"]) THEN prepareInjectables(s4) ELSE s4
        s6 == IF InDiff(diffCrawledData["pipes"]) THEN preparePipes(s5) ELSE s5
        s7 == IF InDiff(diffCrawledData["classes"]) THEN prepareClasses(s6) ELSE s6
        s8 == IF InDiff(diffCrawledData["interfaces"]) THEN prepareInterfaces(s7) ELSE s7
    IN IF HasMiscellaneous(diffCrawledData) THEN prepareMiscellaneous(s8) ELSE s8

(***************************************************************************)
(* The two build paths that crawl.                                         *)
(***************************************************************************)
PlanIdleWatch ==
    /\ watchChangedFiles = <<>>
    /\ updatedFiles = <<>>
    /\ aliased = FALSE
    /\ timerAddAndRemoveRef = NotArmed
    /\ timerChangeRef = NotArmed
    /\ builds = EmptyBag
    /\ disableGraph = FALSE
    /\ includes = FALSE
    /\ sinceChange = NotArmed
    /\ sinceAddRemove = NotArmed
    /\ changeRuns = 0
    /\ generateRuns = 0
    /\ changeBurst = 0
    /\ addRemoveBurst = 0
    /\ consumedLen = 0
    /\ failedFiles = "unrecorded"

\* The state in which generate() reaches getDependenciesData: any project on
\* disk, an empty registry, the root markdown pages already added.
InitPlan ==
    /\ disk \in [Range(Files) -> UNION {Contents(f) : f \in Range(Files)}]
    /\ \A f \in Range(Files) : disk[f] \in Contents(f)
    /\ engine = EmptyCollection
    /\ mainData = EmptyCollection
    /\ pages = RootMarkdownPages
    /\ lastDiff = getDependencies(disk, <<>>)
    /\ planMode = "none"
    /\ rebuilds = 0
    /\ PlanIdleWatch
    /\ StagesIdle

\* getDependenciesData: full crawl, init, prepareEverything.
getDependenciesData ==
    /\ planMode = "none"
    /\ \E dependenciesData \in {getDependencies(disk, Files)} :
         \E st \in {prepareEverything([engine |-> init(dependenciesData),
                                       mainData |-> mainData, pages |-> pages])} :
            /\ engine' = st.engine
            /\ mainData' = st.mainData
            /\ pages' = st.pages
            /\ lastDiff' = dependenciesData
    /\ planMode' = "full"
    /\ UNCHANGED <<disk, rebuilds, watchVars, stageVars>>

\* A micro-rebuild whose merge appends the partial result without replacing the
\* entries of the crawled files.
getMicroDependenciesDataAppending(file, content) ==
    /\ planMode # "none"
    /\ rebuilds < MaxRebuilds
    /\ disk' = [disk EXCEPT ![file] = content]
    /\ \E dependenciesData \in {getDependencies([disk EXCEPT ![file] = content], <<file>>)} :
         \E st \in {prepareJustAFewThings(dependenciesData,
                                          [engine |-> [g \in Groups |->
                                                          engine[g] \o dependenciesData[g]],
                                           mainData |-> mainData, pages |-> pages])} :
            /\ engine' = st.engine
            /\ mainData' = st.mainData
            /\ pages' = st.pages
            /\ lastDiff' = dependenciesData
    /\ planMode' = "micro"
    /\ rebuilds' = rebuilds + 1
    /\ UNCHANGED <<watchVars, stageVars>>

\* A watched file is saved with new content and, the content timer having
\* fired, getMicroDependenciesData: crawl of the changed file, update,
\* prepareJustAFewThings.
getMicroDependenciesData(file, content) ==
    /\ planMode # "none"
    /\ rebuilds < MaxRebuilds
    /\ disk' = [disk EXCEPT ![file] = content]
    /\ \E dependenciesData \in {getDependencies([disk EXCEPT ![file] = content], <<file>>)} :
         \E st \in {prepareJustAFewThings(dependenciesData,
                                          [engine |-> update(engine, dependenciesData),
                                           mainData |-> mainData, pages |-> pages])} :
            /\ engine' = st.engine
            /\ mainData' = st.mainData
            /\ pages' = st.pages
            /\ lastDiff' = dependenciesData
    /\ planMode' = "micro"
    /\ rebuilds' = rebuilds + 1
    /\ UNCHANGED <<watchVars, stageVars>>

NextPlan ==
    \/ getDependenciesData
    \/ \E file \in Range(Files) : \E content \in Contents(file) :
          getMicroDependenciesData(file, content)

SpecPlan == InitPlan /\ [][NextPlan]_vars

(***************************************************************************)
(* Root-markdown ingestion (SpecMarkdowns): processMarkdowns reads the     *)
(* five root markdown files one after the other; each read either resolves *)
(* with the file's content or rejects because the file is missing.         *)
(***************************************************************************)
markdowns == <<"readme", "changelog", "contributing", "license", "todo">>

numberOfMarkdowns == 5

\* String.toUpperCase on the names of the list.
toUpperCase(name) ==
    CASE name = "readme" -> "README"
      [] name = "changelog" -> "CHANGELOG"
      [] name = "contributing" -> "CONTRIBUTING"
      [] name = "license" -> "LICENSE"
      [] name = "todo" -> "TODO"

\* The page of a root markdown file that was found.
MarkdownPage(name) ==
    [name |-> IF name = "readme" THEN "index" ELSE name,
     context |-> "getting-started", id |-> "getting-started", depth |-> 0,
     pageType |-> ROOT]

OverviewPage ==
    [name |-> "overview", id |-> "overview", context |-> "overview", pageType |-> ROOT]

\* The pages added when a file is found: README.md also brings the overview.
FoundPages(pgs, name) ==
    IF name = "readme" THEN addPage(addPage(pgs, MarkdownPage(name)), OverviewPage)
    ELSE addPage(pgs, MarkdownPage(name))

\* The pages added when a file is missing: without README.md the index page
\* shows the overview.
MissingPagesNone(pgs, name) == pgs

MissingPages(pgs, name) ==
    IF name = "readme"
    THEN addPage(pgs, [name |-> "index", id |-> "index", context |-> "overview"])
    ELSE pgs

\* The file the loop is reading.
CurrentMarkdown == markdowns[markdownIndex + 1]

InitMarkdowns ==
    /\ rootMarkdowns \in SUBSET Range(markdowns)
    /\ markdownIndex = 0
    /\ markdownsList = <<>>
    /\ readme = FALSE
    /\ markdownsSettled = "pending"
    /\ WatchIdlePlan
    /\ PlanIdleWatch
    /\ GraphsIdle
    /\ RenderIdle
    /\ LaterIdle

\* getTraditionalMarkdown resolved: the file was found.
MarkdownFound ==
    /\ markdownsSettled = "pending"
    /\ markdownIndex < numberOfMarkdowns
    /\ CurrentMarkdown \in rootMarkdowns
    /\ pages' = FoundPages(pages, CurrentMarkdown)
    /\ readme' = IF CurrentMarkdown = "readme" THEN TRUE ELSE readme
    /\ markdownsList' =
          IF CurrentMarkdown = "readme" THEN markdownsList
          ELSE Append(markdownsList,
                      [name |-> CurrentMarkdown, uppername |-> toUpperCase(CurrentMarkdown),
                       depth |-> 0, pageType |-> ROOT])
    /\ markdownIndex' = markdownIndex + 1
    /\ UNCHANGED <<rootMarkdowns, markdownsSettled, watchVars, disk, engine, mainData,
                   lastDiff, planMode, rebuilds, graphVars,
                   renderVars, laterVars>>

\* A loop whose rejection callback rejects the operation instead of going on.
MarkdownMissingRejects ==
    /\ markdownsSettled = "pending"
    /\ markdownIndex < numberOfMarkdowns
    /\ CurrentMarkdown \notin rootMarkdowns
    /\ markdownsSettled' = "rejected"
    /\ UNCHANGED <<rootMarkdowns, markdownIndex, markdownsList, readme, watchVars,
                   planVars, graphVars, renderVars, laterVars>>

\* getTraditionalMarkdown rejected: the file is missing.
MarkdownMissing ==
    /\ markdownsSettled = "pending"
    /\ markdownIndex < numberOfMarkdowns
    /\ CurrentMarkdown \notin rootMarkdowns
    /\ pages' = MissingPages(pages, CurrentMarkdown)
    /\ markdownIndex' = markdownIndex + 1
    /\ UNCHANGED <<rootMarkdowns, readme, markdownsList, markdownsSettled, watchVars,
                   disk, engine, mainData, lastDiff, planMode, rebuilds, graphVars,
                   renderVars, laterVars>>

\* The loop has gone through the list: resolve().
MarkdownsResolve ==
    /\ markdownsSettled = "pending"
    /\ markdownIndex >= numberOfMarkdowns
    /\ markdownsSettled' = "resolved"
    /\ UNCHANGED <<rootMarkdowns, markdownIndex, markdownsList, readme, watchVars,
                   planVars, graphVars,
                   renderVars, laterVars>>

NextMarkdowns ==
    \/ MarkdownFound
    \/ MarkdownMissing
    \/ MarkdownsResolve

SpecMarkdowns == InitMarkdowns /\ [][NextMarkdowns]_vars

\* Every read of getTraditionalMarkdown settles, and loop() and resolve() are
\* called synchronously from its callbacks.
SpecMarkdownsFair == SpecMarkdowns /\ WF_vars(NextMarkdowns)

(***************************************************************************)
(* Graph stage (SpecGraphs): processGraphs renders the whole-project graph *)
(* and then, one module after the other, the graph of every module that    *)
(* has relations.  Every render and every read-back can fail.              *)
(***************************************************************************)
DeclModule ==
    NgModule("DeclModule", "m.ts", <<Ref("Foo", "component")>>, <<>>, <<>>, <<>>, <<>>)

BootModule ==
    NgModule("BootModule", "m.ts", <<>>, <<Ref("Foo", "component")>>, <<>>, <<>>, <<>>)

ImpModule ==
    NgModule("ImpModule", "m.ts", <<>>, <<>>, <<Ref("LibModule", "module")>>, <<>>, <<>>)

ExpModule ==
    NgModule("ExpModule", "m.ts", <<>>, <<>>, <<>>, <<Ref("Bar", "pipe")>>, <<>>)

ProvModule ==
    NgModule("ProvModule", "m.ts", <<>>, <<>>, <<>>, <<>>, <<Ref("Svc", "injectable")>>)

GraphModules ==
    {AppModule, CoreModule, DeclModule, BootModule, ImpModule, ExpModule, ProvModule}

\* The module lists of the projects considered: no two modules of a name.
ModuleLists ==
    {ms \in UNION {[1..n -> GraphModules] : n \in 0..MaxModules} :
        \A m \in DOMAIN ms : \A n \in DOMAIN ms : m # n => ms[m].name # ms[n].name}

\* dependenciesEngine.getRawModule: the crawled module of that name.
getRawModule(name) == CHOOSE m \in Range(rawModules) : m.name = name

\* The condition under which the loop renders a module's graph.
HasRelationsDeclarationsOnly(rawModule) == Len(rawModule.declarations) > 0

HasRelations(rawModule) ==
    \/ Len(rawModule.declarations) > 0
    \/ Len(rawModule.bootstrap) > 0
    \/ Len(rawModule.imports) > 0
    \/ Len(rawModule.exports) > 0
    \/ Len(rawModule.providers) > 0

\* The loop steps over the modules without relations synchronously: the
\* index at which it next renders, or the length of the list.
RECURSIVE SkipEmpty(_)
SkipEmpty(i) ==
    IF i <= Len(rawModules) - 1 /\ ~HasRelations(getRawModule(rawModules[i + 1].name))
    THEN SkipEmpty(i + 1)
    ELSE i

RenderCall(mode, name) == [mode |-> mode, name |-> name]

\* loop(), entered with the index i: renders the next module that has
\* relations, or hands over to processPages at the end of the list.
loop(i) ==
    \E next \in {SkipEmpty(i)} :
        /\ graphIndex' = next
        /\ IF next <= Len(rawModules) - 1
           THEN /\ graphStep' = "moduleRender"
                /\ renderCalls' =
                      Append(renderCalls, RenderCall("f", rawModules[next + 1].name))
           ELSE /\ graphStep' = "processPages"
                /\ UNCHANGED renderCalls

\* Everything of the watcher but the configuration of the graphs.
WatcherOff ==
    /\ watchChangedFiles = <<>>
    /\ updatedFiles = <<>>
    /\ aliased = FALSE
    /\ timerAddAndRemoveRef = NotArmed
    /\ timerChangeRef = NotArmed
    /\ builds = EmptyBag
    /\ includes = FALSE
    /\ sinceChange = NotArmed
    /\ sinceAddRemove = NotArmed
    /\ changeRuns = 0
    /\ generateRuns = 0
    /\ changeBurst = 0
    /\ addRemoveBurst = 0
    /\ consumedLen = 0
    /\ failedFiles = "unrecorded"

InitGraphs ==
    /\ rawModules \in ModuleLists
    /\ moduleGraphs = [n \in DOMAIN rawModules |-> FALSE]
    /\ graphIndex = 0
    /\ graphStep = "idle"
    /\ disableMainGraph = FALSE
    /\ mainGraph = FALSE
    /\ renderCalls = <<>>
    /\ graphBuilds = 0
    /\ disableGraph \in BOOLEAN
    /\ WatcherOff
    /\ WatchIdlePlan
    /\ MarkdownsIdle
    /\ RenderIdle
    /\ LaterIdle

\* processGraphs(), called by a build once its pages are planned; in watch
\* mode a later build calls it again.
processGraphs ==
    /\ graphStep \in {"idle", "processPages", "halted"}
    /\ graphBuilds <= MaxRebuilds
    /\ graphBuilds' = graphBuilds + 1
    /\ graphIndex' = 0
    /\ IF disableGraph
       THEN /\ graphStep' = "processPages"
            /\ renderCalls' = <<>>
       ELSE /\ graphStep' = "mainRender"
            /\ renderCalls' = <<RenderCall("p", "Main graph")>>
    /\ UNCHANGED <<rawModules, moduleGraphs, disableMainGraph, mainGraph, watchVars,
                   planVars, markdownVars,
                   renderVars, laterVars>>

\* renderGraph of the whole project resolved: read the graph back.
MainRenderDone ==
    /\ graphStep = "mainRender"
    /\ graphStep' = "mainRead"
    /\ UNCHANGED <<rawModules, moduleGraphs, graphIndex, disableMainGraph, mainGraph,
                   renderCalls, graphBuilds, watchVars, planVars, markdownVars,
                   renderVars, laterVars>>

\* renderGraph of the whole project rejected.
MainRenderFailed ==
    /\ graphStep = "mainRender"
    /\ disableMainGraph' = TRUE
    /\ loop(graphIndex)
    /\ UNCHANGED <<rawModules, moduleGraphs, mainGraph, graphBuilds, watchVars,
                   planVars, markdownVars,
                   renderVars, laterVars>>

\* readGraph of the whole project resolved.
MainReadDone ==
    /\ graphStep = "mainRead"
    /\ mainGraph' = TRUE
    /\ loop(graphIndex)
    /\ UNCHANGED <<rawModules, moduleGraphs, disableMainGraph, graphBuilds, watchVars,
                   planVars, markdownVars,
                   renderVars, laterVars>>

\* readGraph of the whole project rejected.
MainReadFailed ==
    /\ graphStep = "mainRead"
    /\ disableMainGraph' = TRUE
    /\ loop(graphIndex)
    /\ UNCHANGED <<rawModules, moduleGraphs, mainGraph, graphBuilds, watchVars,
                   planVars, markdownVars,
                   renderVars, laterVars>>

\* renderGraph of modules[i] resolved: read the graph back.
ModuleRenderDone ==
    /\ graphStep = "moduleRender"
    /\ graphStep' = "moduleRead"
    /\ UNCHANGED <<rawModules, moduleGraphs, graphIndex, disableMainGraph, mainGraph,
                   renderCalls, graphBuilds, watchVars, planVars, markdownVars,
                   renderVars, laterVars>>

\* renderGraph of modules[i] rejected: the error is logged and nothing else
\* is scheduled.
ModuleRenderFailed ==
    /\ graphStep = "moduleRender"
    /\ graphStep' = "halted"
    /\ UNCHANGED <<rawModules, moduleGraphs, graphIndex, disableMainGraph, mainGraph,
                   renderCalls, graphBuilds, watchVars, planVars, markdownVars,
                   renderVars, laterVars>>

\* readGraph of modules[i] resolved: attach the graph and go on.
ModuleReadDone ==
    /\ graphStep = "moduleRead"
    /\ moduleGraphs' = [moduleGraphs EXCEPT ![graphIndex + 1] = TRUE]
    /\ loop(graphIndex + 1)
    /\ UNCHANGED <<rawModules, disableMainGraph, mainGraph, graphBuilds, watchVars,
                   planVars, markdownVars,
                   renderVars, laterVars>>

\* readGraph of modules[i] rejected: the error is logged and nothing else is
\* scheduled.
ModuleReadFailed ==
    /\ graphStep = "moduleRead"
    /\ graphStep' = "halted"
    /\ UNCHANGED <<rawModules, moduleGraphs, graphIndex, disableMainGraph, mainGraph,
                   renderCalls, graphBuilds, watchVars, planVars, markdownVars,
                   renderVars, laterVars>>

NextGraphs ==
    \/ processGraphs
    \/ MainRenderDone
    \/ MainRenderFailed
    \/ MainReadDone
    \/ MainReadFailed
    \/ ModuleRenderDone
    \/ ModuleRenderFailed
    \/ ModuleReadDone
    \/ ModuleReadFailed

SpecGraphs == InitGraphs /\ [][NextGraphs]_vars

(***************************************************************************)
(* Render & index stage (SpecRender): processPages renders, indexes and    *)
(* writes the regular pages, persists the search index, does the same for  *)
(* the additional pages if there are any, and starts the finalization.     *)
(* generate() has installed the unhandledRejection listener, which ends    *)
(* the process with status 1.                                              *)
(***************************************************************************)
Output == "documentation/"

\* cleanNameWithoutSpaceAndToLowerCase on the titles of the model.
cleanNameWithoutSpaceAndToLowerCase(title) ==
    CASE title = "Guide" -> "guide"
      [] title = "Getting Started" -> "getting-started"
      [] title = "Install" -> "install"
      [] title = "Usage" -> "usage"

\* The page prepareExternalIncludes adds for an entry of summary.json.
AdditionalPage(title) ==
    [name |-> title, id |-> title,
     filename |-> cleanNameWithoutSpaceAndToLowerCase(title),
     context |-> "additional-page", path |-> "additional-documentation", depth |-> 1,
     pageType |-> INTERNAL]

\* processPage: the path of the page's file.
FinalPath(page) ==
    Output
      \o (IF "path" \in DOMAIN page THEN page.path \o "/" ELSE "")
      \o (IF "filename" \in DOMAIN page THEN page.filename ELSE page.name)
      \o ".html"

\* processPage: the document handed to searchEngine.indexPage.
IndexEntry(page) == [infos |-> page.name, url |-> FinalPath(page)]

\* The sub-lists of a list that have at most MaxPages pages.
SubLists(list) ==
    {SelectSeq(list, LAMBDA page : page \in chosen) :
        chosen \in {c \in SUBSET Range(list) : Cardinality(c) <= MaxPages}}

RegularPages == <<RootPage("modules"), RootPage("routes"), RootPage("overview")>>

AdditionalPages == <<AdditionalPage("Guide"), AdditionalPage("Getting Started")>>

\* The page list of the phase.
CurrentPages == IF renderPhase = "additional" THEN additionalPages ELSE pages

InitRender ==
    /\ pages \in SubLists(RegularPages)
    /\ additionalPages \in SubLists(AdditionalPages)
    /\ renderPhase = "regular"
    /\ writes = <<>>
    /\ aggregate = "pending"
    /\ renderStep = "idle"
    /\ searchIndex = {}
    /\ persisted = {}
    /\ persists = 0
    /\ logged = <<>>
    /\ disk = <<>>
    /\ engine = <<>>
    /\ mainData = <<>>
    /\ lastDiff = <<>>
    /\ planMode = "none"
    /\ rebuilds = 0
    /\ PlanIdleWatch
    /\ MarkdownsIdle
    /\ GraphsIdle
    /\ LaterIdle

\* Promise.all(pages.map(processPage)): every page of the list is rendered,
\* indexed and its write started; the aggregate of an empty list resolves
\* at once and the index is persisted.
StartPhase(phase, list) ==
    /\ renderPhase' = phase
    /\ writes' = [n \in DOMAIN list |-> "pending"]
    /\ searchIndex' = searchIndex \cup {IndexEntry(list[n]) : n \in DOMAIN list}
    /\ aggregate' = IF list = <<>> THEN "resolved" ELSE "pending"
    /\ renderStep' = IF list = <<>> THEN "persisting" ELSE "writing"

processPages ==
    /\ renderStep = "idle"
    /\ StartPhase("regular", pages)
    /\ UNCHANGED <<additionalPages, persisted, persists, logged, watchVars, planVars,
                   markdownVars, graphVars, laterVars>>

\* fileEngine.write of a page resolved; with the last one of the phase the
\* aggregate resolves and generateSearchIndexJson is called.
WriteDone(n) ==
    /\ renderStep # "exited"
    /\ n \in DOMAIN writes
    /\ writes[n] = "pending"
    /\ writes' = [writes EXCEPT ![n] = "written"]
    /\ IF aggregate = "pending" /\ \A m \in DOMAIN writes : m # n => writes[m] = "written"
       THEN aggregate' = "resolved" /\ renderStep' = "persisting"
       ELSE UNCHANGED <<aggregate, renderStep>>
    /\ UNCHANGED <<additionalPages, renderPhase, searchIndex, persisted, persists,
                   logged, watchVars, planVars, markdownVars, graphVars, laterVars>>

\* unhandledRejectionListener: logs and ends the process with status 1.
Fatal == <<"fatal">>

\* What the .catch of the phase does with the rejected aggregate: the
\* regular phase logs; the additional phase logs and rejects again, which
\* nothing handles, so that the unhandledRejection listener ends the process.
AfterRejection(phase) == IF phase = "additional" THEN "exited" ELSE "stopped"

\* fileEngine.write of a page rejected: processPage logs the page; the first
\* rejection of the phase rejects the aggregate.
WriteFailed(n) ==
    /\ renderStep # "exited"
    /\ n \in DOMAIN writes
    /\ writes[n] = "pending"
    /\ writes' = [writes EXCEPT ![n] = "failed"]
    /\ IF aggregate = "pending"
       THEN /\ aggregate' = "rejected"
            /\ renderStep' = AfterRejection(renderPhase)
            /\ logged' = logged \o <<"page " \o CurrentPages[n].name, "stage">>
                              \o (IF AfterRejection(renderPhase) = "exited"
                                  THEN Fatal ELSE <<>>)
       ELSE /\ logged' = Append(logged, "page " \o CurrentPages[n].name)
            /\ UNCHANGED <<aggregate, renderStep>>
    /\ UNCHANGED <<additionalPages, renderPhase, searchIndex, persisted, persists,
                   watchVars, planVars, markdownVars, graphVars, laterVars>>

\* additionalPages.length > 0
HasNoAdditionalPages == FALSE

HasAdditionalPages == Len(additionalPages) > 0

\* generateSearchIndexJson resolved: after the regular pages the additional
\* pages are processed if there are any; otherwise, and after the additional
\* pages, processAssetsFolder and processResources start the finalization.
PersistDone ==
    /\ renderStep = "persisting"
    /\ persisted' = searchIndex
    /\ persists' = persists + 1
    /\ IF renderPhase = "regular" /\ HasAdditionalPages
       THEN StartPhase("additional", additionalPages)
       ELSE /\ renderStep' = "finalization"
            /\ UNCHANGED <<renderPhase, writes, searchIndex, aggregate>>
    /\ UNCHANGED <<additionalPages, logged, watchVars, planVars, markdownVars,
                   graphVars, laterVars>>

\* generateSearchIndexJson rejected: processPages logs the error;
\* processAdditionalPages has no handler for it.
PersistFailed ==
    /\ renderStep = "persisting"
    /\ IF renderPhase = "regular"
       THEN /\ renderStep' = "stopped"
            /\ logged' = Append(logged, "persist")
       ELSE /\ renderStep' = "exited"
            /\ logged' = logged \o Fatal
    /\ UNCHANGED <<additionalPages, renderPhase, writes, aggregate, searchIndex,
                   persisted, persists, watchVars, planVars, markdownVars, graphVars, laterVars>>

\* processResources: the copies have succeeded and onComplete has run.
ResourcesCopied ==
    /\ renderStep = "finalization"
    /\ renderStep' = "done"
    /\ UNCHANGED <<additionalPages, renderPhase, writes, aggregate, searchIndex,
                   persisted, persists, logged, watchVars, planVars, markdownVars,
                   graphVars, laterVars>>

\* processResources: a copy has failed, which is logged.
ResourcesCopyFailed ==
    /\ renderStep = "finalization"
    /\ renderStep' = "stopped"
    /\ logged' = Append(logged, "resources")
    /\ UNCHANGED <<additionalPages, renderPhase, writes, aggregate, searchIndex,
                   persisted, persists, watchVars, planVars, markdownVars, graphVars, laterVars>>

NextRender ==
    \/ processPages
    \/ \E n \in 1..MaxPages : WriteDone(n)
    \/ \E n \in 1..MaxPages : WriteFailed(n)
    \/ PersistDone
    \/ PersistFailed
    \/ ResourcesCopied
    \/ ResourcesCopyFailed

SpecRender == InitRender /\ [][NextRender]_vars

(***************************************************************************)
(* The build as a whole (SpecBuild): from generate() to onComplete, one    *)
(* action per callback, with the stages at the grain of their outcome.     *)
(* this.files is set before generate() and is what the build crawls.       *)
(***************************************************************************)
\* COMPODOC_DEFAULTS.exportFormat and COMPODOC_DEFAULTS.exportFormatsSupported
DefaultExportFormat == "html"

exportFormatsSupported == {"json"}

ExportFormats == {DefaultExportFormat, "json", "pdf"}

\* The options of the runs considered.
Options ==
    {o \in [exportFormat : ExportFormats, serve : BOOLEAN, watch : BOOLEAN,
            extTheme : {"", "theme.css"}, customFavicon : {"", "favicon.ico"},
            assetsFolder : {"", "assets"}, assetsExist : BOOLEAN,
            hasRoutes : BOOLEAN, hasAdditionalPages : BOOLEAN,
            modules : 0..MaxModules] :
        o.assetsFolder = "" => ~o.assetsExist}

otherThanBuild == <<watchVars, planVars, markdownVars, graphVars, renderVars,
                    componentVars, rebuildVars, finalVars>>

InitBuild ==
    /\ options \in Options
    /\ buildStep = "idle"
    /\ listeners = 0
    /\ completion = "pending"
    /\ isWatching = FALSE
    /\ served = 0
    /\ modulesLeft = 0
    /\ stageLog = <<>>
    /\ fatalFailure = FALSE
    /\ generateCalls = 0
    /\ disableGraph \in BOOLEAN
    /\ WatcherOff
    /\ WatchIdlePlan
    /\ MarkdownsIdle
    /\ GraphsIdle
    /\ RenderIdle
    /\ ComponentsIdle
    /\ RebuildIdle
    /\ FinalIdle

\* generate(): installs the two listeners and starts the build.
GenerateBody ==
    /\ generateCalls' = generateCalls + 1
    /\ listeners' = listeners + 1
    /\ stageLog' = <<>>
    /\ fatalFailure' = FALSE
    /\ buildStep' = IF options.exportFormat # DefaultExportFormat
                    THEN "packageJson" ELSE "htmlInit"
    /\ UNCHANGED <<options, completion, isWatching, served, modulesLeft, otherThanBuild>>

\* The first generate() of the process.
generate ==
    /\ buildStep = "idle"
    /\ GenerateBody

\* runnerAddAndRemove: the structural timer fires and the watcher runs
\* generate() again.
runnerAddAndRemove ==
    /\ isWatching
    /\ buildStep \in {"watching", "stopped", "hung"}
    /\ generateCalls <= MaxRebuilds
    /\ GenerateBody

\* process.exit(1) from the unhandledRejection listener.
Exit ==
    /\ buildStep' = "exited"
    /\ fatalFailure' = TRUE

\* htmlEngine.init() resolved: processPackageJson.
HtmlInitDone ==
    /\ buildStep = "htmlInit"
    /\ buildStep' = "packageJson"
    /\ UNCHANGED <<options, listeners, completion, isWatching, served, modulesLeft,
                   stageLog, fatalFailure, generateCalls, otherThanBuild>>

\* htmlEngine.init() rejected: nothing handles it.
HtmlInitFailed ==
    /\ buildStep = "htmlInit"
    /\ Exit
    /\ UNCHANGED <<options, listeners, completion, isWatching, served, modulesLeft,
                   stageLog, generateCalls, otherThanBuild>>

\* package.json was read or is missing: either way processMarkdowns.
PackageJsonRead ==
    /\ buildStep = "packageJson"
    /\ buildStep' = "markdowns"
    /\ UNCHANGED <<options, listeners, completion, isWatching, served, modulesLeft,
                   stageLog, fatalFailure, generateCalls, otherThanBuild>>

\* processMarkdowns resolved: getDependenciesData crawls, initialises the
\* registry and prepareEverything starts the planning steps.
MarkdownsDone ==
    /\ buildStep = "markdowns"
    /\ buildStep' = "prepare"
    /\ stageLog' = stageLog \o <<"crawl", "init", "planning">>
    /\ UNCHANGED <<options, listeners, completion, isWatching, served, modulesLeft,
                   fatalFailure, generateCalls, otherThanBuild>>

\* prepareRoutes: the routes index is generated for the default format only.
GeneratesRoutesIndexAlways(opts) == opts.hasRoutes

GeneratesRoutesIndex(opts) ==
    opts.hasRoutes /\ opts.exportFormat = DefaultExportFormat

\* processPages: the pages are rendered, indexed and their writes started.
StartPages == <<"pages">>

\* The planning steps have resolved: export, or the graph stage.
PrepareEverythingDone ==
    /\ buildStep = "prepare"
    /\ \E log \in {IF GeneratesRoutesIndex(options)
                   THEN stageLog \o <<"routesIndex">> ELSE stageLog} :
          IF options.exportFormat # DefaultExportFormat
          THEN /\ IF options.exportFormat \in exportFormatsSupported
                  THEN /\ buildStep' = "exporting"
                       /\ stageLog' = log \o <<"planned", "export">>
                  ELSE /\ buildStep' = "stopped"
                       /\ stageLog' = log \o <<"planned">>
               /\ UNCHANGED modulesLeft
          ELSE IF disableGraph
          THEN /\ buildStep' = "writing"
               /\ stageLog' = log \o <<"planned">> \o StartPages
               /\ UNCHANGED modulesLeft
          ELSE /\ buildStep' = "mainGraph"
               /\ stageLog' = log \o <<"planned", "mainGraph">>
               /\ modulesLeft' = options.modules
    /\ UNCHANGED <<options, listeners, completion, isWatching, served, fatalFailure,
                   generateCalls, otherThanBuild>>

\* A planning step has rejected (the routes index could not be written, the
\* summary of the external documents could not be read): logged.
PrepareRejected ==
    /\ buildStep = "prepare"
    /\ buildStep' = "stopped"
    /\ fatalFailure' = TRUE
    /\ UNCHANGED <<options, listeners, completion, isWatching, served, modulesLeft,
                   stageLog, generateCalls, otherThanBuild>>

\* handleTemplateurl: the template of a component is missing; the promise it
\* returns never settles.
TemplateMissing ==
    /\ buildStep = "prepare"
    /\ buildStep' = "hung"
    /\ UNCHANGED <<options, listeners, completion, isWatching, served, modulesLeft,
                   stageLog, fatalFailure, generateCalls, otherThanBuild>>

\* exportEngine.export resolved: the completion signal and endCallback.
ExportDone ==
    /\ buildStep = "exporting"
    /\ buildStep' = "done"
    /\ completion' = "resolved"
    /\ listeners' = IF listeners > 0 THEN listeners - 1 ELSE 0
    /\ stageLog' = Append(stageLog, "complete")
    /\ UNCHANGED <<options, isWatching, served, modulesLeft, fatalFailure,
                   generateCalls, otherThanBuild>>

\* exportEngine.export rejected: nothing handles it.
ExportFailed ==
    /\ buildStep = "exporting"
    /\ Exit
    /\ UNCHANGED <<options, listeners, completion, isWatching, served, modulesLeft,
                   stageLog, generateCalls, otherThanBuild>>

\* The loop of processGraphs: the next module, or processPages.
AfterGraphSkipsModules(left) == "writing"

AfterGraph(left) == IF left > 0 THEN "moduleGraph" ELSE "writing"

GraphLoop(log) ==
    /\ buildStep' = AfterGraph(modulesLeft)
    /\ stageLog' = IF AfterGraph(modulesLeft) = "moduleGraph"
                   THEN log \o <<"moduleGraph">> ELSE log \o StartPages

\* The whole-project graph was rendered and read back, or one of the two
\* failed: in both cases the loop over the modules starts.
MainGraphDone ==
    /\ buildStep = "mainGraph"
    /\ GraphLoop(Append(stageLog, "mainGraphRead"))
    /\ UNCHANGED <<options, listeners, completion, isWatching, served, modulesLeft,
                   fatalFailure, generateCalls, otherThanBuild>>

MainGraphFailed ==
    /\ buildStep = "mainGraph"
    /\ GraphLoop(stageLog)
    /\ UNCHANGED <<options, listeners, completion, isWatching, served, modulesLeft,
                   fatalFailure, generateCalls, otherThanBuild>>

\* The graph of a module was rendered and read back.
ModuleGraphDone ==
    /\ buildStep = "moduleGraph"
    /\ modulesLeft' = modulesLeft - 1
    /\ buildStep' = AfterGraph(modulesLeft - 1)
    /\ stageLog' = stageLog \o <<"moduleGraphRead">>
                     \o (IF AfterGraph(modulesLeft - 1) = "moduleGraph"
                         THEN <<"moduleGraph">> ELSE StartPages)
    /\ UNCHANGED <<options, listeners, completion, isWatching, served, fatalFailure,
                   generateCalls, otherThanBuild>>

\* The graph of a module failed: logged, nothing else.
ModuleGraphFailed ==
    /\ buildStep = "moduleGraph"
    /\ buildStep' = "stopped"
    /\ fatalFailure' = TRUE
    /\ UNCHANGED <<options, listeners, completion, isWatching, served, modulesLeft,
                   stageLog, generateCalls, otherThanBuild>>

\* Every page of the phase was written: the index is persisted.
PagesWritten ==
    /\ buildStep \in {"writing", "writingAdditional"}
    /\ buildStep' = IF buildStep = "writing" THEN "persisting" ELSE "persistingAdditional"
    /\ stageLog' = stageLog \o <<"written", "persist">>
    /\ UNCHANGED <<options, listeners, completion, isWatching, served, modulesLeft,
                   fatalFailure, generateCalls, otherThanBuild>>

\* The write of a page failed: logged in the regular phase, unhandled in the
\* additional phase.
PageWriteFailed ==
    /\ buildStep \in {"writing", "writingAdditional"}
    /\ IF buildStep = "writing"
       THEN buildStep' = "stopped" /\ fatalFailure' = TRUE
       ELSE Exit
    /\ UNCHANGED <<options, listeners, completion, isWatching, served, modulesLeft,
                   stageLog, generateCalls, otherThanBuild>>

\* processAssetsFolder and processResources: the assets folder is copied if
\* it is configured and exists, and the copy of the bundled resources starts.
StartFinalization ==
    (IF options.assetsFolder # "" /\ options.assetsExist
     THEN <<"assetsCopy">> ELSE <<>>) \o <<"resourcesCopy">>

\* generateSearchIndexJson resolved: the additional pages after the regular
\* ones if there are any, else the finalization.
IndexPersisted ==
    /\ buildStep \in {"persisting", "persistingAdditional"}
    /\ IF buildStep = "persisting" /\ options.hasAdditionalPages
       THEN /\ buildStep' = "writingAdditional"
            /\ stageLog' = stageLog \o <<"persisted", "additionalPages">>
       ELSE /\ buildStep' = "resources"
            /\ stageLog' = stageLog \o <<"persisted">> \o StartFinalization
    /\ UNCHANGED <<options, listeners, completion, isWatching, served, modulesLeft,
                   fatalFailure, generateCalls, otherThanBuild>>

\* generateSearchIndexJson rejected: logged in the regular phase, unhandled
\* in the additional phase.
IndexPersistFailed ==
    /\ buildStep \in {"persisting", "persistingAdditional"}
    /\ IF buildStep = "persisting"
       THEN buildStep' = "stopped" /\ fatalFailure' = TRUE
       ELSE Exit
    /\ UNCHANGED <<options, listeners, completion, isWatching, served, modulesLeft,
                   stageLog, generateCalls, otherThanBuild>>

\* runWebServer: the watcher is started if watching was asked for and is
\* not running yet.
NeverStartsWatch(opts, watching) == FALSE

StartsWatch(opts, watching) == opts.watch /\ ~watching

\* runWebServer: the server is started unless the process is watching
\* already.
StartsServerAlways(watching) == TRUE

StartsServer(watching) == ~watching

\* onComplete: serve the output (and watch), or fire the completion signal
\* and remove the listeners.
onComplete(log) ==
    /\ stageLog' = Append(log, "complete")
    /\ IF options.serve
       THEN /\ served' = IF StartsServer(isWatching) THEN served + 1 ELSE served
            /\ isWatching' = (isWatching \/ StartsWatch(options, isWatching))
            /\ buildStep' = IF isWatching \/ StartsWatch(options, isWatching)
                            THEN "watching" ELSE "serving"
            /\ UNCHANGED <<completion, listeners>>
       ELSE /\ completion' = "resolved"
            /\ listeners' = IF listeners > 0 THEN listeners - 1 ELSE 0
            /\ buildStep' = "done"
            /\ UNCHANGED <<served, isWatching>>

\* What follows the copy of the bundled resources.
BranchAfterResourcesIconFirst(opts) ==
    IF opts.customFavicon # "" THEN "icon" ELSE IF opts.extTheme # "" THEN "theme" ELSE "none"

BranchAfterResources(opts) ==
    IF opts.extTheme # "" THEN "theme" ELSE IF opts.customFavicon # "" THEN "icon" ELSE "none"

\* The bundled resources were copied.
ResourcesCopyDone ==
    /\ buildStep = "resources"
    /\ \E branch \in {BranchAfterResources(options)} :
          IF branch = "none"
          THEN onComplete(Append(stageLog, "resourcesCopied"))
          ELSE /\ buildStep' = branch
               /\ stageLog' = stageLog \o <<"resourcesCopied", branch \o "Copy">>
               /\ UNCHANGED <<completion, listeners, served, isWatching>>
    /\ UNCHANGED <<options, modulesLeft, fatalFailure, generateCalls, otherThanBuild>>

\* The copy of the bundled resources failed: logged, nothing else.
ResourcesCopyError ==
    /\ buildStep = "resources"
    /\ buildStep' = "stopped"
    /\ fatalFailure' = TRUE
    /\ UNCHANGED <<options, listeners, completion, isWatching, served, modulesLeft,
                   stageLog, generateCalls, otherThanBuild>>

\* The external theme or the custom icon was copied.
ThemeOrIconCopied ==
    /\ buildStep \in {"theme", "icon"}
    /\ onComplete(Append(stageLog, buildStep \o "Copied"))
    /\ UNCHANGED <<options, modulesLeft, fatalFailure, generateCalls, otherThanBuild>>

\* The copy of the external theme or of the custom icon failed: logged,
\* nothing else.
ThemeOrIconCopyError ==
    /\ buildStep \in {"theme", "icon"}
    /\ buildStep' = "stopped"
    /\ UNCHANGED <<options, listeners, completion, isWatching, served, modulesLeft,
                   stageLog, fatalFailure, generateCalls, otherThanBuild>>

NextBuild ==
    \/ generate
    \/ runnerAddAndRemove
    \/ HtmlInitDone
    \/ HtmlInitFailed
    \/ PackageJsonRead
    \/ MarkdownsDone
    \/ PrepareEverythingDone
    \/ PrepareRejected
    \/ TemplateMissing
    \/ ExportDone
    \/ ExportFailed
    \/ MainGraphDone
    \/ MainGraphFailed
    \/ ModuleGraphDone
    \/ ModuleGraphFailed
    \/ PagesWritten
    \/ PageWriteFailed
    \/ IndexPersisted
    \/ IndexPersistFailed
    \/ ResourcesCopyDone
    \/ ResourcesCopyError
    \/ ThemeOrIconCopied
    \/ ThemeOrIconCopyError

SpecBuild == InitBuild /\ [][NextBuild]_vars

\* Every callback the build waits for is eventually run.
SpecBuildFair == SpecBuild /\ WF_vars(NextBuild)

(***************************************************************************)
(* Component planning (SpecComponents): prepareComponents' loop over the   *)
(* components of the project, with handleTemplateurl.  A component has a    *)
(* neighbour README file or not, and a templateUrl or not; the README and  *)
(* the template file are the project's files, which can be read or not.    *)
(***************************************************************************)
\* The components considered: readme is the state of the neighbour README
\* file, template the state of the file that templateUrl names.
ComponentNames == <<"Foo", "Bar", "Baz">>

Component ==
    {c \in [readme : {"none", "ok", "unreadable"}, templateUrl : {"", "foo.html"},
            template : {"ok", "missing", "unreadable"}] :
        c.templateUrl = "" => c.template = "ok"}

Named(list) == [k \in 1..Len(list) |-> [name |-> ComponentNames[k],
                                         readme |-> list[k].readme,
                                         templateUrl |-> list[k].templateUrl,
                                         template |-> list[k].template]]

ComponentLists == UNION {[1..n -> Component] : n \in 0..MaxComponents}

\* $markdownengine.hasNeighbourReadmeFile(file)
hasNeighbourReadmeFile(c) == c.readme # "none"

\* $markdownengine.readNeighbourReadmeFile(file) returns the text of the file;
\* a read that fails throws.
ReadmeReadThrows(c) == c.readme = "unreadable"

\* fileEngine.existsSync(templatePath)
existsSync(c) == c.template # "missing"

\* The page that addPage receives: the component with its readme, if one was
\* attached, and its template data, once read.
ComponentPage(c) ==
    [name |-> c.name, readme |-> hasNeighbourReadmeFile(c), templateData |-> FALSE]

\* this.handleTemplateurl(component).then(...) is called only for a component
\* with a templateUrl.
HasTemplateUrl(c) == c.templateUrl # ""

Planned(i, step, pgs, lg) == [i |-> i, step |-> step, pages |-> pgs, logged |-> lg]

\* loop(): runs from component i until it has to wait for a template, has
\* passed the last component, or throws.  inCallback tells whether it was
\* called from the promise executor (a throw rejects prepareComponents'
\* promise) or from the fulfilment callback of handleTemplateurl (a throw
\* rejects the promise that then() returned, which nothing handles).
RECURSIVE componentsLoop(_, _, _, _)
componentsLoop(i, pgs, lg, inCallback) ==
    IF i <= Len(components) - 1
    THEN LET c == components[i + 1] IN
         IF hasNeighbourReadmeFile(c) /\ ReadmeReadThrows(c)
         THEN Planned(i, IF inCallback THEN "unhandled" ELSE "rejected", pgs, lg)
         ELSE IF HasTemplateUrl(c)
              THEN IF ~existsSync(c)
                   THEN Planned(i, "hung", Append(pgs, ComponentPage(c)),
                                Append(lg, "Cannot read template for " \o c.name))
                   ELSE Planned(i, "template", Append(pgs, ComponentPage(c)), lg)
              ELSE componentsLoop(i + 1, Append(pgs, ComponentPage(c)), lg, inCallback)
    ELSE Planned(i, "resolved", pgs, lg)

otherThanComponents == <<watchVars, planVars, markdownVars, graphVars, renderVars,
                         buildVars, rebuildVars, finalVars>>

InitComponents ==
    /\ components \in {Named(list) : list \in ComponentLists}
    /\ compIndex = 0
    /\ compStep = "idle"
    /\ compPages = <<>>
    /\ compLogged = <<>>
    /\ disableGraph = FALSE
    /\ WatcherOff
    /\ WatchIdlePlan
    /\ MarkdownsIdle
    /\ GraphsIdle
    /\ RenderIdle
    /\ BuildIdle
    /\ RebuildIdle
    /\ FinalIdle

Continue(r) ==
    /\ compIndex' = r.i
    /\ compStep' = r.step
    /\ compPages' = r.pages
    /\ compLogged' = r.logged
    /\ UNCHANGED <<components, otherThanComponents>>

\* prepareComponents(): the promise executor calls loop().
PrepareComponentsStart ==
    /\ compStep = "idle"
    /\ \E r \in {componentsLoop(0, <<>>, <<>>, FALSE)} : Continue(r)

\* fileEngine.get(templatePath) is fulfilled: the template data is attached to
\* the component, then i++ and loop().
TemplateRead ==
    /\ compStep = "template"
    /\ components[compIndex + 1].template = "ok"
    /\ \E r \in {componentsLoop(compIndex + 1,
                                [compPages EXCEPT ![Len(compPages)].templateData = TRUE],
                                compLogged, TRUE)} : Continue(r)

\* fileEngine.get(templatePath) is rejected: handleTemplateurl logs the error
\* and rejects; the rejection callback of the loop logs again and returns.
TemplateReadFailed ==
    /\ compStep = "template"
    /\ components[compIndex + 1].template = "unreadable"
    /\ compStep' = "hung"
    /\ compLogged' = compLogged \o <<"read error", "">>
    /\ UNCHANGED <<components, compIndex, compPages, otherThanComponents>>

\* The listener of 'unhandledRejection' ends the process.
unhandledRejectionListener ==
    /\ compStep = "unhandled"
    /\ compStep' = "exited"
    /\ UNCHANGED <<components, compIndex, compPages, compLogged, otherThanComponents>>

NextComponents ==
    \/ PrepareComponentsStart
    \/ TemplateRead
    \/ TemplateReadFailed
    \/ unhandledRejectionListener

SpecComponents == InitComponents /\ [][NextComponents]_vars

\* Every callback component planning waits for is eventually run.
SpecComponentsFair == SpecComponents /\ WF_vars(NextComponents)

(***************************************************************************)
(* The content rebuilds of the watcher (SpecRebuild): runnerChange and the *)
(* three rebuild paths, one rebuild at a time, with the calls each makes.  *)
(* What the root-markdown and the external-documentation steps do to the   *)
(* page list is the subject of the stages' own specifications; here the    *)
(* registry and the order of the calls are followed.                       *)
(***************************************************************************)
\* getDependenciesData on the project d: the state the first build leaves.
FullBuild(d) ==
    prepareEverything([engine |-> init(getDependencies(d, Files)),
                       mainData |-> EmptyCollection, pages |-> RootMarkdownPages])

\* The lists watchChangedFiles can hold when the content timer fires.
ChangedFiles == {JoinCwd(f) : f \in {g \in Sources : ChangeAccepted(g)}}

\* Each changed file once, in any order.
ChangedLists ==
    {l \in UNION {[1..n -> ChangedFiles] : n \in 1..MaxChanged} :
        \A i, j \in 1..Len(l) : l[i] = l[j] => i = j}

\* The contents a.ts has, before and after a save.
WatchedContents == {<<>>, <<CompFoo>>, <<CompFoo, InjSvc>>}

\* The source files among the updated files, as the crawler names them.
CrawledFiles(files) ==
    IF \E i \in 1..Len(files) : files[i] = JoinCwd(SrcA) THEN <<"a.ts">> ELSE <<>>

\* rebuildExternalDocumentation: the step is pushed only with an includes folder.
ExternalSteps == IF includes THEN <<"prepareExternalIncludes">> ELSE <<>>

\* The then-callback of the step list: prepareJustAFewThings calls
\* processGraphs, the two other paths call processPages.
AfterStepsAlwaysGraphs(path) == "processGraphs"

AfterSteps(path) == IF path = "micro" THEN "processGraphs" ELSE "processPages"

\* The projects watched: a.ts has one of its contents, b.ts a class and m.ts
\* the two modules.
WatchedProject(a) ==
    [f \in Range(Files) |->
        CASE f = "a.ts" -> a
          [] f = "b.ts" -> <<Entry("class", "K", "b.ts")>>
          [] f = "m.ts" -> <<AppModule, CoreModule>>]

InitRebuild ==
    /\ disk \in {WatchedProject(a) : a \in WatchedContents}
    /\ engine = FullBuild(disk).engine
    /\ mainData = FullBuild(disk).mainData
    /\ pages = FullBuild(disk).pages
    /\ lastDiff = getDependencies(disk, Files)
    /\ planMode = "full"
    /\ rebuilds = 0
    /\ watchChangedFiles = <<>>
    /\ updatedFiles = <<>>
    /\ aliased = FALSE
    /\ timerAddAndRemoveRef = NotArmed
    /\ timerChangeRef = NotArmed
    /\ builds = EmptyBag
    /\ disableGraph \in BOOLEAN
    /\ includes \in BOOLEAN
    /\ sinceChange = NotArmed
    /\ sinceAddRemove = NotArmed
    /\ changeRuns = 0
    /\ generateRuns = 0
    /\ changeBurst = 0
    /\ addRemoveBurst = 0
    /\ consumedLen = 0
    /\ failedFiles = "unrecorded"
    /\ rebuildPath = "none"
    /\ rebuildStep = "idle"
    /\ rebuildCalls = <<>>
    /\ pathsDone = {}
    /\ MarkdownsIdle
    /\ GraphsIdle
    /\ RenderIdle
    /\ BuildIdle
    /\ ComponentsIdle
    /\ FinalIdle

rebuildFrame == <<timerAddAndRemoveRef, timerChangeRef, builds, disableGraph, includes,
                  sinceChange, sinceAddRemove, changeRuns, generateRuns, changeBurst,
                  addRemoveBurst, consumedLen, failedFiles, markdownVars, graphVars, renderVars,
                  buildVars, componentVars, finalVars>>

\* The changed files have been saved (content is what a.ts holds now) and the
\* content timer fires.  runnerChange: setUpdatedFiles(this.watchChangedFiles),
\* then getMicroDependenciesData, rebuildRootMarkdowns or
\* rebuildExternalDocumentation, each up to the start of its step list.
runnerChange(files, content) ==
    /\ rebuildStep = "idle"
    /\ rebuilds < MaxRebuilds
    /\ CrawledFiles(files) = <<>> => content = disk["a.ts"]
    /\ disk' = [disk EXCEPT !["a.ts"] = content]
    /\ watchChangedFiles' = files
    /\ updatedFiles' = files
    /\ aliased' = TRUE
    /\ rebuilds' = rebuilds + 1
    /\ rebuildStep' = "steps"
    /\ \E path \in {RunnerChangePath(files)} :
        /\ rebuildPath' = path
        /\ CASE path = "micro" ->
                  \E dependenciesData \in {getDependencies([disk EXCEPT !["a.ts"] = content],
                                                           CrawledFiles(files))} :
                    \E st \in {prepareJustAFewThings(dependenciesData,
                                   [engine |-> update(engine, dependenciesData),
                                    mainData |-> mainData, pages |-> pages])} :
                        /\ engine' = st.engine
                        /\ mainData' = st.mainData
                        /\ pages' = st.pages
                        /\ lastDiff' = dependenciesData
                        /\ planMode' = "micro"
                        /\ rebuildCalls' = <<"crawler", "update", "prepareJustAFewThings">>
             [] path = "rootmd" ->
                  /\ rebuildCalls' = <<"resetRootMarkdownPages", "processMarkdowns">>
                  /\ UNCHANGED <<engine, mainData, pages, lastDiff, planMode>>
             [] path = "extdocs" ->
                  /\ rebuildCalls' = <<"resetAdditionalPages">> \o ExternalSteps
                  /\ UNCHANGED <<engine, mainData, pages, lastDiff, planMode>>
    /\ UNCHANGED <<pathsDone, rebuildFrame>>

\* The step list has resolved: processGraphs or processPages, then
\* clearUpdatedFiles.  With graphs disabled processGraphs calls processPages
\* at once.
StepsDone ==
    /\ rebuildStep = "steps"
    /\ \E next \in {AfterSteps(rebuildPath)} :
        /\ rebuildStep' = IF next = "processGraphs" /\ ~disableGraph THEN "graphs"
                          ELSE "pages"
        /\ rebuildCalls' = rebuildCalls \o
                           (IF next = "processGraphs" /\ disableGraph
                            THEN <<"processGraphs", "processPages">> ELSE <<next>>)
                           \o <<"clearUpdatedFiles">>
    /\ watchChangedFiles' = ClearedFiles
    /\ updatedFiles' = ClearedFiles
    /\ aliased' = FALSE
    /\ UNCHANGED <<rebuildPath, pathsDone, planVars, rebuildFrame>>

\* A step has rejected: the catch logs the message and the rebuild is over.
\* processMarkdowns never rejects, and without an includes folder the
\* external-documentation rebuild has no step.
StepsRejected ==
    /\ rebuildStep = "steps"
    /\ rebuildPath = "micro" \/ (rebuildPath = "extdocs" /\ ExternalSteps # <<>>)
    /\ rebuildStep' = "idle"
    /\ rebuildCalls' = Append(rebuildCalls, "logger.error")
    /\ UNCHANGED <<watchChangedFiles, updatedFiles, aliased, rebuildPath, pathsDone,
                   planVars, rebuildFrame>>

\* processGraphs' loop has passed the last module and calls processPages.
RebuildGraphsDone ==
    /\ rebuildStep = "graphs"
    /\ rebuildStep' = "pages"
    /\ rebuildCalls' = Append(rebuildCalls, "processPages")
    /\ UNCHANGED <<watchChangedFiles, updatedFiles, aliased, rebuildPath, pathsDone,
                   planVars, rebuildFrame>>

\* The pages are written, the index is persisted and the resources are copied.
RebuildPagesDone ==
    /\ rebuildStep = "pages"
    /\ rebuildStep' = "idle"
    /\ pathsDone' = pathsDone \cup {rebuildPath}
    /\ UNCHANGED <<watchChangedFiles, updatedFiles, aliased, rebuildPath, rebuildCalls,
                   planVars, rebuildFrame>>

NextRebuild ==
    \/ \E files \in ChangedLists : \E content \in WatchedContents :
          runnerChange(files, content)
    \/ StepsDone
    \/ StepsRejected
    \/ RebuildGraphsDone
    \/ RebuildPagesDone

SpecRebuild == InitRebuild /\ [][NextRebuild]_vars

(***************************************************************************)
(* Graph stages of overlapping builds (SpecGraphRuns).  In watch mode      *)
(* every rebuild that has planned its pages calls processGraphs, whatever  *)
(* an earlier rebuild is still doing; each call has its own loop closure   *)
(* (its own i), and all of them share configuration.mainData.              *)
(***************************************************************************)
Run(step, i) == [step |-> step, i |-> i]

\* loop() of one call, entered with the index i.
RunLoop(i) ==
    LET next == SkipEmpty(i) IN
    IF next <= Len(rawModules) - 1 THEN Run("moduleRender", next)
    ELSE Run("processPages", next)

graphRunFrame == <<rawModules, graphIndex, graphStep, renderCalls, graphBuilds,
                   watchVars, planVars, markdownVars, renderVars, buildVars,
                   componentVars, rebuildVars, includeVars>>

InitGraphRuns ==
    /\ rawModules \in ModuleLists
    /\ moduleGraphs = [n \in DOMAIN rawModules |-> FALSE]
    /\ graphIndex = 0
    /\ graphStep = "idle"
    /\ disableMainGraph = FALSE
    /\ mainGraph = FALSE
    /\ renderCalls = <<>>
    /\ graphBuilds = 0
    /\ graphRuns = <<>>
    /\ disableGraph \in BOOLEAN
    /\ WatcherOff
    /\ WatchIdlePlan
    /\ MarkdownsIdle
    /\ RenderIdle
    /\ BuildIdle
    /\ ComponentsIdle
    /\ RebuildIdle
    /\ IncludesIdle

\* processGraphs(), called by a build or rebuild that has planned its pages.
processGraphsCall ==
    /\ Len(graphRuns) < MaxInFlight
    /\ graphRuns' = Append(graphRuns, IF disableGraph THEN Run("processPages", 0)
                                      ELSE Run("mainRender", 0))
    /\ UNCHANGED <<moduleGraphs, disableMainGraph, mainGraph, disableGraph, graphRunFrame>>

\* ngdEngine.renderGraph of call r has settled: fulfilled, the graph is read
\* back; rejected, the whole-project graph is disabled and the loop starts,
\* while after a module's failure nothing more is scheduled.
RenderSettled(r, fulfilled) ==
    /\ graphRuns[r].step \in {"mainRender", "moduleRender"}
    /\ IF graphRuns[r].step = "mainRender"
       THEN /\ graphRuns' = [graphRuns EXCEPT ![r] =
                                IF fulfilled THEN Run("mainRead", 0) ELSE RunLoop(0)]
            /\ disableMainGraph' = (IF fulfilled THEN disableMainGraph ELSE TRUE)
       ELSE /\ graphRuns' = [graphRuns EXCEPT ![r].step =
                                IF fulfilled THEN "moduleRead" ELSE "halted"]
            /\ UNCHANGED disableMainGraph
    /\ UNCHANGED <<moduleGraphs, mainGraph, disableGraph, graphRunFrame>>

\* ngdEngine.readGraph of call r has settled.
ReadSettled(r, fulfilled) ==
    /\ graphRuns[r].step \in {"mainRead", "moduleRead"}
    /\ IF graphRuns[r].step = "mainRead"
       THEN /\ graphRuns' = [graphRuns EXCEPT ![r] = RunLoop(0)]
            /\ mainGraph' = (IF fulfilled THEN TRUE ELSE mainGraph)
            /\ disableMainGraph' = (IF fulfilled THEN disableMainGraph ELSE TRUE)
            /\ UNCHANGED moduleGraphs
       ELSE /\ graphRuns' = [graphRuns EXCEPT ![r] =
                                IF fulfilled THEN RunLoop(graphRuns[r].i + 1)
                                ELSE Run("halted", graphRuns[r].i)]
            /\ moduleGraphs' = (IF fulfilled
                                THEN [moduleGraphs EXCEPT ![graphRuns[r].i + 1] = TRUE]
                                ELSE moduleGraphs)
            /\ UNCHANGED <<mainGraph, disableMainGraph>>
    /\ UNCHANGED <<disableGraph, graphRunFrame>>

NextGraphRuns ==
    \/ processGraphsCall
    \/ \E r \in DOMAIN graphRuns : \E fulfilled \in BOOLEAN : RenderSettled(r, fulfilled)
    \/ \E r \in DOMAIN graphRuns : \E fulfilled \in BOOLEAN : ReadSettled(r, fulfilled)

SpecGraphRuns == InitGraphRuns /\ [][NextGraphRuns]_vars

(***************************************************************************)
(* External-include ingestion (SpecIncludes): prepareExternalIncludes      *)
(* reads summary.json of the includes folder, then the markdown file of    *)
(* each entry and of each of its children, one read at a time.             *)
(***************************************************************************)
SummaryEntry(title, children) == [title |-> title, children |-> children]

\* The summaries of the model: at most two entries, with up to two children.
Summaries ==
    LET guides == {SummaryEntry("Guide", c) : c \in {<<>>, <<"Install">>,
                                                     <<"Install", "Usage">>}}
        starts == {SummaryEntry("Getting Started", c) : c \in {<<>>, <<"Usage">>}}
    IN {<<>>} \cup {<<e>> : e \in guides \cup starts}
              \cup {<<e, f>> : e \in guides, f \in starts}
              \cup {<<f, e>> : e \in guides, f \in starts}

\* The page prepareExternalIncludes adds for a child of an entry.
ChildPage(parent, title) ==
    [name |-> title, id |-> title,
     filename |-> cleanNameWithoutSpaceAndToLowerCase(title),
     context |-> "additional-page",
     path |-> "additional-documentation/" \o cleanNameWithoutSpaceAndToLowerCase(parent),
     depth |-> 2, pageType |-> INTERNAL]

\* loop() entered with the index i: the read of entry i is started, or the
\* promise is resolved.
IncludesLoop(i) == IF i <= Len(summaryJson.entries) - 1 THEN "entry" ELSE "resolved"

includesFrame == <<watchVars, planVars, markdownVars, graphVars, renderPhase, writes,
                   aggregate, renderStep, searchIndex, persisted, persists,
                   buildVars, componentVars, rebuildVars, graphRunVars>>

InitIncludes ==
    /\ summaryJson \in [found : BOOLEAN, entries : Summaries]
    /\ summaryJson.found = FALSE => summaryJson.entries = <<>>
    /\ incIndex = 0
    /\ incChild = 0
    /\ incStep = "idle"
    /\ includes = TRUE
    /\ disableGraph = FALSE
    /\ watchChangedFiles = <<>>
    /\ updatedFiles = <<>>
    /\ aliased = FALSE
    /\ timerAddAndRemoveRef = NotArmed
    /\ timerChangeRef = NotArmed
    /\ builds = EmptyBag
    /\ sinceChange = NotArmed
    /\ sinceAddRemove = NotArmed
    /\ changeRuns = 0
    /\ generateRuns = 0
    /\ changeBurst = 0
    /\ addRemoveBurst = 0
    /\ consumedLen = 0
    /\ failedFiles = "unrecorded"
    /\ WatchIdlePlan
    /\ MarkdownsIdle
    /\ GraphsIdle
    /\ RenderIdle
    /\ BuildIdle
    /\ ComponentsIdle
    /\ RebuildIdle
    /\ GraphRunsIdle

\* prepareExternalIncludes(): the read of summary.json is started.
prepareExternalIncludes ==
    /\ incStep = "idle"
    /\ incStep' = "summary"
    /\ UNCHANGED <<summaryJson, incIndex, incChild, additionalPages, logged, includesFrame>>

\* fileEngine.get(summary.json) fulfilled: the summary is parsed and loop()
\* is entered with i = 0.
SummaryRead ==
    /\ incStep = "summary"
    /\ summaryJson.found
    /\ incIndex' = 0
    /\ incStep' = IncludesLoop(0)
    /\ UNCHANGED <<summaryJson, incChild, additionalPages, logged, includesFrame>>

\* fileEngine.get(summary.json) rejected: logged, and the promise rejects.
SummaryMissing ==
    /\ incStep = "summary"
    /\ ~summaryJson.found
    /\ incStep' = "rejected"
    /\ logged' = Append(logged, "summary")
    /\ UNCHANGED <<summaryJson, incIndex, incChild, additionalPages, includesFrame>>

\* getTraditionalMarkdown of entry i has settled.  Fulfilled: its page is
\* added, and either loopChild() starts the read of the first child or i++
\* and loop().  Rejected: the error is logged, and nothing else happens.
EntryRead(fulfilled) ==
    /\ incStep = "entry"
    /\ LET entry == summaryJson.entries[incIndex + 1] IN
       IF fulfilled
       THEN /\ additionalPages' = Append(additionalPages, AdditionalPage(entry.title))
            /\ IF Len(entry.children) > 0
               THEN /\ incChild' = 0
                    /\ incStep' = "child"
                    /\ UNCHANGED incIndex
               ELSE /\ incIndex' = incIndex + 1
                    /\ incStep' = IncludesLoop(incIndex + 1)
                    /\ UNCHANGED incChild
            /\ UNCHANGED logged
       ELSE /\ logged' = Append(logged, "include " \o entry.title)
            /\ incStep' = "stopped"
            /\ UNCHANGED <<incIndex, incChild, additionalPages>>
    /\ UNCHANGED <<summaryJson, includesFrame>>

\* getTraditionalMarkdown of child j of entry i has settled.  Fulfilled: its
\* page is added, j++ and loopChild(), which after the last child does i++
\* and loop().  Rejected: the error is logged, and nothing else happens.
ChildRead(fulfilled) ==
    /\ incStep = "child"
    /\ LET entry == summaryJson.entries[incIndex + 1]
           child == entry.children[incChild + 1]
       IN
       IF fulfilled
       THEN /\ additionalPages' = Append(additionalPages, ChildPage(entry.title, child))
            /\ incChild' = incChild + 1
            /\ IF incChild + 1 <= Len(entry.children) - 1
               THEN UNCHANGED <<incIndex, incStep>>
               ELSE /\ incIndex' = incIndex + 1
                    /\ incStep' = IncludesLoop(incIndex + 1)
            /\ UNCHANGED logged
       ELSE /\ logged' = Append(logged, "include " \o child)
            /\ incStep' = "stopped"
            /\ UNCHANGED <<incIndex, incChild, additionalPages>>
    /\ UNCHANGED <<summaryJson, includesFrame>>

NextIncludes ==
    \/ prepareExternalIncludes
    \/ SummaryRead
    \/ SummaryMissing
    \/ \E fulfilled \in BOOLEAN : EntryRead(fulfilled)
    \/ \E fulfilled \in BOOLEAN : ChildRead(fulfilled)

SpecIncludes == InitIncludes /\ [][NextIncludes]_vars

\* Every read of fileEngine.get and getTraditionalMarkdown settles.
SpecIncludesFair == SpecIncludes /\ WF_vars(NextIncludes)

(***************************************************************************)
(* Properties of the Watch Coordinator (SpecWatch).                        *)
(***************************************************************************)

\* The step in which the content timer's callback, runnerChange, runs.
ContentTimerFires == timerChangeRef = 0 /\ timerChangeRef' = NotArmed

\* The step in which the structural timer's callback, runnerAddAndRemove, runs.
StructuralTimerFires == timerAddAndRemoveRef = 0 /\ timerAddAndRemoveRef' = NotArmed

\* C1: in watch mode at most one rebuild is in flight at any time; a debounce
\* timer that fires while an earlier rebuild has not finished its render,
\* index and finalization steps starts no second rebuild.
C1_AtMostOneRebuildInFlight == InFlight <= 1

\* The entries of watchChangedFiles that no runnerChange has consumed yet.
Unconsumed == {watchChangedFiles[i] : i \in (consumedLen + 1)..Len(watchChangedFiles)}

\* C2: no change event is lost; a path pushed by a 'change' event while a
\* rebuild is in progress stays in the changed-file set until a content
\* rebuild consumes it, and no step other than a runnerChange removes it.
C2_NoChangeEventLost ==
    [][~ContentTimerFires => Unconsumed \subseteq Range(watchChangedFiles')]_vars

\* C3: in the three content rebuild paths the changed-file set is cleared only
\* after the rebuild's page rendering, search-index persistence and
\* finalization have settled; no rebuild still in flight has cleared it.
C3_ClearedOnlyWhenSettled == \A b \in BagToSet(builds) : ~b.cleared

\* The path the priority order of the changed-file set calls for.
ExpectedPath(files) ==
    IF \E i \in 1..Len(files) : files[i].ext = ".ts" THEN "micro"
    ELSE IF \E i \in 1..Len(files) : files[i].ext = ".md" /\ files[i].dir = Cwd
         THEN "rootmd"
    ELSE "extdocs"

\* C4: when the content timer fires exactly one rebuild path is invoked: the
\* micro-rebuild if any changed file is a .ts file, otherwise the root-markdown
\* path if any changed file is a markdown file of the project root, otherwise
\* the external-docs path; {a.ts, b.md} selects the micro-rebuild, {b.md} the
\* root-markdown path, {c.include} the external-docs path.
C4_ClassificationPriority ==
    [][ContentTimerFires =>
         \E b \in BagToSet(builds') :
            /\ builds' = builds (+) SetToBag({b})
            /\ b.kind = ExpectedPath(watchChangedFiles)
            /\ Range(watchChangedFiles) = {JoinCwd(SrcA), JoinCwd(RootMd)}
                  => b.kind = "micro"
            /\ Range(watchChangedFiles) = {JoinCwd(RootMd)} => b.kind = "rootmd"
            /\ Range(watchChangedFiles) = {JoinCwd(IncMd)} => b.kind = "extdocs"]_vars

\* C4 witness: runnerChange has consumed a.ts and README.md together and the
\* one rebuild in flight is the micro-rebuild it started.
C4_Witness ==
    /\ timerChangeRef = NotArmed
    /\ consumedLen = 2
    /\ Range(updatedFiles) = {JoinCwd(SrcA), JoinCwd(RootMd)}
    /\ builds = SetToBag({[kind |-> "micro", phase |-> "prepare", cleared |-> FALSE]})

\* C5: N >= 1 'change' events on tracked .ts/.md/.json files, each less than
\* 1000ms after the previous one, produce exactly one content rebuild
\* invocation, 1000ms after the last event: while the timer is armed the burst
\* has had no invocation and the timer ends 1000ms after the last event; once
\* it is no longer armed the burst has had exactly one, at 1000ms.
C5_ContentDebounce ==
    /\ timerChangeRef # NotArmed =>
          /\ changeRuns = 0
          /\ sinceChange # NotArmed
          /\ timerChangeRef + sinceChange = 1000
    /\ timerChangeRef = NotArmed =>
          IF sinceChange = NotArmed THEN changeRuns = 0 /\ changeBurst = 0
          ELSE changeRuns = 1 /\ sinceChange = 1000

\* C5 witness: a burst of two or more change events has had its one invocation.
C5_Witness ==
    /\ changeBurst = 2
    /\ changeRuns = 1
    /\ timerChangeRef = NotArmed
    /\ sinceChange = 1000

\* The whole pipeline at its first stage.
FullAtStart == [kind |-> "full", phase |-> "start", cleared |-> FALSE]

\* C6: a burst of add/unlink events of .ts files, each within 1000ms of the
\* previous one, yields exactly one call of generate(), which re-runs the whole
\* pipeline from its first stage; add/unlink events of other files arm no timer
\* and start no rebuild.
C6_StructuralDebounce ==
    /\ [](/\ timerAddAndRemoveRef # NotArmed =>
               /\ generateRuns = 0
               /\ sinceAddRemove # NotArmed
               /\ timerAddAndRemoveRef + sinceAddRemove = 1000
          /\ timerAddAndRemoveRef = NotArmed =>
               IF sinceAddRemove = NotArmed
               THEN generateRuns = 0 /\ addRemoveBurst = 0
               ELSE generateRuns = 1 /\ sinceAddRemove = 1000)
    /\ [][StructuralTimerFires => builds' = builds (+) SetToBag({FullAtStart})]_vars
    /\ [][CopiesIn(FullAtStart, builds') > CopiesIn(FullAtStart, builds)
            => StructuralTimerFires]_vars

\* C6 witness: a burst of two or more add/unlink events of a .ts file has had
\* its one call of generate(), whose pipeline is at its first stage.
C6_Witness ==
    /\ addRemoveBurst = 2
    /\ generateRuns = 1
    /\ timerAddAndRemoveRef = NotArmed
    /\ BagIn(FullAtStart, builds)

(***************************************************************************)
(* Properties of the Symbol Registry and the Page Planner (SpecPlan).      *)
(***************************************************************************)

\* The last build ran prepareModules.
PrepareModulesRan ==
    \/ planMode = "full"
    \/ planMode = "micro" /\ lastDiff["modules"] # <<>>

\* The current collection has an entry of the reference's kind and name.
Present(r) ==
    \E e \in Range(engine[GroupOf(r.type)]) : e.name = r.name /\ e.type = r.type

ModulesHandedOn == Range(mainData["modules"])

Validated(r) ==
    r.type \in {"directive", "component", "module", "pipe"} => Present(r)

C8_ReferencesRevalidatedAfterMerge ==
    planMode = "micro" =>
        \A m \in ModulesHandedOn :
            \A l \in {"declarations", "bootstrap", "imports", "exports", "providers"} :
                \A r \in Range(m[l]) :
                    r.type \in {"component", "directive", "pipe", "injectable"}
                        => Present(r)

\* The item pages of a section, and whether it has a root page.
ItemPagesOf(pgs, g) ==
    SelectSeq(pgs, LAMBDA pg : "path" \in DOMAIN pg /\ pg.path = g)

HasRootPage(g) ==
    \E i \in 1..Len(pages) : "path" \notin DOMAIN pages[i] /\ pages[i].name = g

HasMiscPage(group) ==
    \E i \in 1..Len(pages) :
        /\ "path" \in DOMAIN pages[i]
        /\ pages[i].path = "miscellaneous"
        /\ pages[i].name = group

SomeMiscellaneous(data) ==
    \E group \in {"variables", "functions", "typealiases", "enumerations"} :
        data[group] # <<>>

IdsOf(list) == [i \in 1..Len(list) |-> list[i].id]

FullPlan(coll) ==
    prepareEverything([engine |-> coll, mainData |-> EmptyCollection,
                       pages |-> <<>>]).pages

\* C10: after a micro-rebuild has merged a partial crawl result the page list
\* equals the page list a full build would plan from the resulting
\* collection, so sections untouched by the changed files keep their pages.
C10_PagesFunctionOfCollection ==
    planMode = "micro" => Range(pages) = Range(FullPlan(engine))

\* C10 (amended): after a micro-rebuild the page list is rebuilt from empty;
\* for each section that is non-empty in the partial result it holds exactly
\* the item pages a full build would plan for the section from the merged
\* collection, and for a section untouched by the changed files it holds no
\* page; the routes root page is always in it, the modules root page only
\* when the partial result has a module, and no other page is.
C10_PagesOfTouchedSections ==
    planMode = "micro" =>
        /\ \A g \in {"modules", "components", "directives", "injectables", "pipes",
                     "classes", "interfaces"} :
              ItemPagesOf(pages, g) =
                  IF lastDiff[g] # <<>> THEN ItemPagesOf(FullPlan(engine), g) ELSE <<>>
        /\ ItemPagesOf(pages, "miscellaneous") =
              IF SomeMiscellaneous(lastDiff)
              THEN ItemPagesOf(FullPlan(engine), "miscellaneous") ELSE <<>>
        /\ \A i \in 1..Len(pages) :
              "path" \notin DOMAIN pages[i] =>
                  \/ pages[i].name = "routes"
                  \/ pages[i].name = "modules" /\ lastDiff["modules"] # <<>>
        /\ HasRootPage("routes")
        /\ lastDiff["modules"] # <<>> => HasRootPage("modules")

\* C10 witness: a micro-rebuild has planned the pages of both classes of the
\* merged collection and no page for the project's modules.
C10_Witness ==
    /\ planMode = "micro"
    /\ lastDiff["classes"] # <<>>
    /\ Len(engine["classes"]) = 2
    /\ Len(ItemPagesOf(pages, "classes")) = 2
    /\ engine["modules"] # <<>>
    /\ lastDiff["modules"] = <<>>
    /\ ItemPagesOf(pages, "modules") = <<>>

(***************************************************************************)
(* Properties of root-markdown ingestion (SpecMarkdowns).                  *)
(***************************************************************************)

\* C11: within one build no two page descriptors have the same id.
C11_PageIdsUnique ==
    \A m \in 1..Len(pages) : \A n \in 1..Len(pages) :
        m # n => pages[m].id # pages[n].id

HasPageNamed(name) == \E n \in 1..Len(pages) : pages[n].name = name

\* C12: after root-markdown ingestion, whichever root markdown files are
\* present or absent, the page list holds a page named 'overview' and a page
\* named 'index'.
C12_OverviewAndIndexPresent ==
    markdownsSettled = "resolved" => HasPageNamed("overview") /\ HasPageNamed("index")

\* C12 (amended): after root-markdown ingestion the page list holds exactly
\* one page named 'index'; it holds a page named 'overview' iff README.md
\* was found, and when README.md is missing the index page is the one with
\* the overview context.
C12_IndexAlwaysOverviewWithReadme ==
    markdownsSettled = "resolved" =>
        /\ Cardinality({n \in 1..Len(pages) : pages[n].name = "index"}) = 1
        /\ HasPageNamed("overview") <=> "readme" \in rootMarkdowns
        /\ "readme" \notin rootMarkdowns =>
              \E n \in 1..Len(pages) :
                  pages[n].name = "index" /\ pages[n].context = "overview"

\* C12 witness: ingestion has resolved for a project without README.md and
\* with another root markdown file.
C12_Witness ==
    /\ markdownsSettled = "resolved"
    /\ "readme" \notin rootMarkdowns
    /\ "changelog" \in rootMarkdowns
    /\ HasPageNamed("index")

(***************************************************************************)
(* Properties of the graph stage (SpecGraphs).                             *)
(***************************************************************************)
\* The renderer invocations of the current build with that mode and label.
Calls(mode, name) ==
    Cardinality({n \in 1..Len(renderCalls) : renderCalls[n] = RenderCall(mode, name)})

\* A module with at least one non-empty relation list.
SomeRelation(m) ==
    \E list \in {m.declarations, m.bootstrap, m.imports, m.exports, m.providers} :
        list # <<>>

Expected(m) == IF SomeRelation(m) THEN 1 ELSE 0

\* C13: the graph renderer is never invoked when graphs are disabled;
\* otherwise a build invokes it exactly once for the whole project, never
\* for a module whose relation lists are all empty and never twice for a
\* module, and when the stage hands over to the render stage it has invoked
\* it exactly once for each module with a non-empty relation list.
C13_GraphInvocations ==
    /\ disableGraph => renderCalls = <<>>
    /\ ~disableGraph /\ graphStep # "idle" => Calls("p", "Main graph") = 1
    /\ \A n \in 1..Len(renderCalls) :
          \/ renderCalls[n] = RenderCall("p", "Main graph")
          \/ \E m \in Range(rawModules) : renderCalls[n] = RenderCall("f", m.name)
    /\ \A m \in Range(rawModules) : Calls("f", m.name) <= Expected(m)
    /\ ~disableGraph /\ graphStep = "processPages" =>
          \A m \in Range(rawModules) : Calls("f", m.name) = Expected(m)

\* C13 witness: a build of a project with a module without relations and a
\* module whose only relations are its bootstrap list has handed over to the
\* render stage after two invocations (the project and the second module).
C13_Witness ==
    /\ ~disableGraph
    /\ graphStep = "processPages"
    /\ rawModules = <<CoreModule, BootModule>>
    /\ renderCalls = <<RenderCall("p", "Main graph"), RenderCall("f", "BootModule")>>

\* C14: a failure of the whole-project graph disables that graph for the
\* build only: every build enters the graph stage with the whole-project
\* graph enabled.
C14_MainGraphEnabledAtBuildStart ==
    graphStep = "mainRender" => ~disableMainGraph

\* C15: when rendering or reading back a module's graph fails, the stage
\* ends with the build reported as failed: it is not left without outcome.
C15_ModuleFailureReported ==
    [][(graphStep \in {"moduleRender", "moduleRead"}
        /\ graphStep' \notin {"moduleRead", "moduleRender", "processPages"})
       => graphStep' = "failed"]_vars

(***************************************************************************)
(* Properties of the render & index stage (SpecRender).                    *)
(***************************************************************************)
\* The write of the page of that name in the current phase.
WriteOf(name) ==
    {writes[n] : n \in {m \in DOMAIN writes : CurrentPages[m].name = name}}

Logged(message) == \E n \in 1..Len(logged) : logged[n] = message

\* C16: the aggregate of a phase resolves or fails only after the write of
\* every page of the phase has settled.
C16_AggregateSettlesAfterAllPages ==
    aggregate # "pending" => \A n \in DOMAIN writes : writes[n] # "pending"

\* C17: once the regular pages have settled with the write of 'routes'
\* failed and the write of 'modules' done, a search index containing
\* 'modules' has been persisted and the failure of the stage is logged.
C17_IndexPersistedDespiteFailedPage ==
    (/\ renderPhase = "regular"
     /\ WriteOf("routes") = {"failed"}
     /\ WriteOf("modules") = {"written"}
     /\ \A n \in DOMAIN writes : writes[n] # "pending")
    => /\ IndexEntry(RootPage("modules")) \in persisted
       /\ Logged("stage")

EntriesOf(list) == {IndexEntry(list[n]) : n \in DOMAIN list}

\* C18: the index is persisted only when every page of the phase has been
\* indexed and written; the additional pages are processed only after the
\* first persist, which holds the regular pages; the finalization starts
\* only after the last persist, with one persist if there are no additional
\* pages and two if there are, the persisted index holding every page.
C18_PersistOncePerPhaseBeforeFinalization ==
    /\ renderStep = "persisting" =>
          /\ \A n \in DOMAIN writes : writes[n] = "written"
          /\ Len(writes) = Len(CurrentPages)
          /\ EntriesOf(CurrentPages) \subseteq searchIndex
    /\ renderPhase = "additional" =>
          /\ persists >= 1
          /\ Len(additionalPages) > 0
          /\ EntriesOf(pages) \subseteq persisted
    /\ renderStep \in {"finalization", "done"} =>
          /\ persists = (IF Len(additionalPages) > 0 THEN 2 ELSE 1)
          /\ persisted = EntriesOf(pages) \cup EntriesOf(additionalPages)
    /\ persists <= 2
    /\ renderPhase = "regular" => persists <= 1

\* C18 witness: the finalization has started for a build with two regular
\* and two additional pages, after two persists.
C18_Witness ==
    /\ renderStep = "finalization"
    /\ Len(pages) = 2
    /\ Len(additionalPages) = 2
    /\ persists = 2
    /\ Cardinality(persisted) = 4

\* C19: when persisting the index fails, in either phase, the failure is
\* logged by the stage, the finalization does not start and the process is
\* not ended by the fatal-error handler.
C19_PersistFailureLoggedNotFatal ==
    [][(renderStep = "persisting" /\ renderStep' # "persisting" /\ persists' = persists)
       => /\ renderStep' = "stopped"
          /\ logged' = Append(logged, "persist")]_vars

\* C20: a failed write of a page, regular or additional, is logged and does
\* not end the process.
C20_FailedWriteNeverFatal ==
    \A n \in DOMAIN writes :
        writes[n] = "failed" =>
            /\ Logged("page " \o CurrentPages[n].name)
            /\ renderStep # "exited"
            /\ ~Logged("fatal")

(***************************************************************************)
(* Properties of the build as a whole (SpecBuild).                         *)
(***************************************************************************)
InLog(event) == \E n \in 1..Len(stageLog) : stageLog[n] = event

CountLog(event) == Cardinality({n \in 1..Len(stageLog) : stageLog[n] = event})

Follows(event, next) ==
    \E n \in 1..Len(stageLog) - 1 : stageLog[n] = event /\ stageLog[n + 1] = next

\* C21: once the bundled resources are copied, exactly one of three things
\* is done: the external theme is copied if one is configured, whatever the
\* custom icon; else the custom icon is copied if one is configured; else
\* neither is copied and the build completes.  Nothing of this is done
\* before the bundled resources are copied.
C21_OneBranchByPrecedence ==
    /\ InLog("themeCopy") \/ InLog("iconCopy") => InLog("resourcesCopied")
    /\ InLog("resourcesCopied") =>
          /\ InLog("themeCopy") <=> options.extTheme # ""
          /\ InLog("iconCopy") <=> (options.extTheme = "" /\ options.customFavicon # "")
          /\ (options.extTheme = "" /\ options.customFavicon = "")
                => Follows("resourcesCopied", "complete")
          /\ CountLog("themeCopy") + CountLog("iconCopy") <= 1

\* C21 witness: a build with an external theme and a custom icon has copied
\* the theme.
C21_Witness ==
    /\ options.extTheme # ""
    /\ options.customFavicon # ""
    /\ InLog("themeCopied")

\* C22: when the finalization has completed with the dev-server flag set,
\* the output is served (the server is started once per process) and the
\* watcher runs iff watching was asked for; with the flag not set, the
\* completion signal is fired and the listeners of the build are removed,
\* and nothing is served or watched.
C22_CompletionServesOrSignals ==
    (InLog("complete") /\ options.exportFormat = DefaultExportFormat) =>
        IF options.serve
        THEN /\ served = 1
             /\ isWatching <=> options.watch
             /\ buildStep = (IF options.watch THEN "watching" ELSE "serving")
        ELSE /\ completion = "resolved"
             /\ listeners = 0
             /\ served = 0
             /\ ~isWatching

\* C22 witness: a served and watched process has completed a full rebuild.
C22_Witness ==
    /\ InLog("complete")
    /\ options.serve
    /\ options.watch
    /\ isWatching
    /\ generateCalls = 2

\* C23: at any moment at most one pair of fatal-error handlers is
\* installed, also after full rebuilds in watch mode.
C23_AtMostOnePairOfHandlers == listeners <= 1

HtmlEvents ==
    {"routesIndex", "mainGraph", "mainGraphRead", "moduleGraph", "moduleGraphRead",
     "pages", "written", "persist", "persisted", "additionalPages", "assetsCopy",
     "resourcesCopy", "resourcesCopied", "themeCopy", "themeCopied", "iconCopy",
     "iconCopied"}

\* C24: with an export format other than the default, the build never runs
\* the graph stage, the render & index stage, the copy of the resources or
\* the dev server, and does not generate the routes index; the exporter is
\* the only thing it hands the model to, once, and only for a supported
\* format.
C24_ExportExcludesHtmlPipeline ==
    options.exportFormat # DefaultExportFormat =>
        /\ \A n \in 1..Len(stageLog) : stageLog[n] \notin HtmlEvents
        /\ served = 0
        /\ ~isWatching
        /\ CountLog("export") <= 1
        /\ InLog("export") => options.exportFormat \in exportFormatsSupported
        /\ InLog("complete") => Follows("export", "complete")
        /\ (InLog("planned") /\ options.exportFormat \in exportFormatsSupported)
              => Follows("planned", "export")

\* C24 witness: an export of a project with routes has completed.
C24_Witness ==
    /\ options.exportFormat # DefaultExportFormat
    /\ options.hasRoutes
    /\ buildStep = "done"
    /\ InLog("export")

\* C27: a one-shot build in which only tolerated failures occur eventually
\* fires its completion signal.
C27_NonFatalBuildCompletes ==
    <>(options.serve \/ completion = "resolved" \/ fatalFailure)

\* The stage an event of the build belongs to.
StageOf(event) ==
    CASE event \in {"crawl", "init"} -> 1
      [] event \in {"planning", "routesIndex", "planned"} -> 2
      [] event \in {"mainGraph", "mainGraphRead", "moduleGraph", "moduleGraphRead",
                    "export"} -> 3
      [] event \in {"pages", "written", "persist", "persisted", "additionalPages"} -> 4
      [] OTHER -> 5

\* C30: in a full build the events of the stages occur in the order
\* registry init, page planning, graph stage, render & index stage,
\* finalization; the pages are rendered only when the graph of every module
\* has been read back (graphs enabled), and the resources are copied only
\* when every persist of the index has completed (one, or two with
\* additional pages).
C30_StagesInOrder ==
    /\ \A m \in 1..Len(stageLog) : \A n \in 1..Len(stageLog) :
          m < n => StageOf(stageLog[m]) <= StageOf(stageLog[n])
    /\ (InLog("pages") /\ ~disableGraph) =>
          /\ CountLog("moduleGraphRead") = options.modules
          /\ CountLog("moduleGraph") = options.modules
    /\ (InLog("pages") /\ disableGraph) => ~InLog("mainGraph") /\ ~InLog("moduleGraph")
    /\ InLog("resourcesCopy") =>
          /\ CountLog("persist") = (IF options.hasAdditionalPages THEN 2 ELSE 1)
          /\ CountLog("persisted") = CountLog("persist")
          /\ CountLog("written") = CountLog("persist")

\* C30 witness: a build with graphs enabled, the most modules and additional
\* pages has reached the copy of the resources.
C30_Witness ==
    /\ ~disableGraph
    /\ options.modules = MaxModules
    /\ options.hasAdditionalPages
    /\ InLog("resourcesCopy")
    /\ InLog("mainGraphRead")

(***************************************************************************)
(* Properties of the registry merge (SpecPlan).                            *)
(***************************************************************************)
\* The SymbolCollection after one more micro-rebuild of the files of the last
\* one, their contents unchanged: the same partial result is merged again and
\* the affected sections are planned again.
Remerged ==
    prepareJustAFewThings(lastDiff, [engine |-> update(engine, lastDiff),
                                     mainData |-> mainData, pages |-> pages]).engine

NoUnreadableReadme == \A k \in 1..Len(components) : ~ReadmeReadThrows(components[k])

AllComponentsPlanned ==
    /\ Len(compPages) = Len(components)
    /\ \A k \in 1..Len(components) : compPages[k].name = components[k].name

\* C25: a component whose template cannot be resolved (the file is missing or
\* the read fails) is only a warning: every component's page is planned and
\* component planning eventually completes.
C25_TemplateFailureIsNonFatal ==
    NoUnreadableReadme => <>(compStep = "resolved" /\ AllComponentsPlanned)

\* C26: a neighbour README that cannot be read is treated as absent: once the
\* loop has reached the component, its page is planned without a readme and
\* the planning step has not failed.
C26_UnreadableReadmeTreatedAsAbsent ==
    \A k \in 1..Len(components) :
        (ReadmeReadThrows(components[k]) /\ compStep # "idle" /\ compIndex >= k - 1)
            => /\ compStep \notin {"rejected", "unhandled", "exited"}
               /\ \E n \in 1..Len(compPages) :
                     compPages[n].name = components[k].name /\ ~compPages[n].readme

(***************************************************************************)
(* Properties of the content rebuilds (SpecRebuild).                       *)
(***************************************************************************)
RegistryCalls == {"crawler", "update", "processGraphs"}

\* C28: the crawler and the registry merge are used by the source-file-changed
\* path only.  In every step of a root-markdown or external-documentation
\* rebuild the SymbolCollection stays as it is and the rebuild has called
\* neither the crawler, nor update, nor processGraphs; the path that crawls
\* and merges is taken exactly when a changed file is a source file.
C28_OnlySourceChangePathCrawlsAndMerges ==
    [][/\ rebuildPath' \in {"rootmd", "extdocs"}
          => /\ engine' = engine
             /\ lastDiff' = lastDiff
             /\ \A n \in 1..Len(rebuildCalls') : rebuildCalls'[n] \notin RegistryCalls
       /\ rebuildStep = "idle" /\ rebuildStep' = "steps"
          => /\ rebuildPath' = "micro" <=> hasWatchedFilesTSFiles(updatedFiles')
             /\ rebuildPath' = "micro"
                  => rebuildCalls' = <<"crawler", "update", "prepareJustAFewThings">>
      ]_vars

\* A root-markdown rebuild and an external-documentation rebuild have both run
\* to their end on a project whose registry is not empty.
C28_Witness ==
    /\ pathsDone = {"rootmd", "extdocs"}
    /\ rebuildStep = "idle"
    /\ \E g \in Groups : Len(engine[g]) > 0
    /\ \E n \in 1..Len(rebuildCalls) : rebuildCalls[n] = "processPages"

(***************************************************************************)
(* Properties of overlapping graph stages (SpecGraphRuns).                 *)
(***************************************************************************)
\* The processGraphs calls whose renderGraph invocation has not settled.
Rendering == {r \in DOMAIN graphRuns : graphRuns[r].step \in {"mainRender", "moduleRender"}}

\* C31: at any time at most one invocation of the graph renderer is
\* outstanding.
C31_AtMostOneRendererInvocation == Cardinality(Rendering) <= 1

(***************************************************************************)
(* Order of the planned pages (SpecPlan).                                  *)
(***************************************************************************)
\* The group a planned page belongs to: the path of an item page, the name
\* of a root page.
PageGroup(page) == IF "path" \in DOMAIN page THEN page.path ELSE page.name

PlannedGroups == Range(ListSections) \cup {"routes", "miscellaneous"}

\* Some page of group g is planned before some page of group h.
Precedes(pgs, g, h) ==
    \E i, j \in DOMAIN pgs : i < j /\ PageGroup(pgs[i]) = g /\ PageGroup(pgs[j]) = h

\* C32: the groups appear in one order in every build path: two groups
\* planned in one order by a build are never planned in the opposite order by
\* the next build.
C32_GroupsInOneOrder ==
    [][\A g, h \in PlannedGroups :
          (g # h /\ Precedes(pages, g, h)) => ~Precedes(pages', h, g)]_vars

(***************************************************************************)
(* Output paths of the planned pages (SpecPlan).                           *)
(***************************************************************************)
\* C33: no two pages of the list processPages writes in parallel have the
\* same output file path.
C33_DistinctOutputPaths ==
    \A i, j \in DOMAIN pages : i # j => FinalPath(pages[i]) # FinalPath(pages[j])

(***************************************************************************)
(* Completion of the root-markdown ingestion (SpecMarkdownsFair).          *)
(***************************************************************************)
\* C34: whatever root markdown files are missing, processMarkdowns goes
\* through the five documents one at a time in the order of the list, never
\* rejects, resolves only after the fifth attempt, and does resolve.
C34_MarkdownsAlwaysResolve ==
    /\ [](markdownsSettled \in {"pending", "resolved"})
    /\ [](markdownsSettled = "resolved" => markdownIndex = numberOfMarkdowns)
    /\ [][markdownIndex' # markdownIndex =>
            /\ markdownIndex' = markdownIndex + 1
            /\ markdownsSettled = "pending"
            /\ CurrentMarkdown = markdowns[markdownIndex']]_vars
    /\ <>(markdownsSettled = "resolved")

\* The operation has resolved for a project that has some of the five files
\* and misses others, README.md among the missing.
C34_Witness ==
    /\ markdownsSettled = "resolved"
    /\ markdownIndex = 5
    /\ rootMarkdowns # {}
    /\ "readme" \notin rootMarkdowns
    /\ "todo" \notin rootMarkdowns

(***************************************************************************)
(* Settling of the external-include ingestion (SpecIncludesFair).          *)
(***************************************************************************)
\* C35: when every file read settles, prepareExternalIncludes eventually
\* resolves or rejects.
C35_IncludesAlwaysSettle == <>(incStep \in {"resolved", "rejected"})

(***************************************************************************)
(* The changed files a content rebuild classifies (SpecWatch).             *)
(***************************************************************************)
\* A step of runnerChange: the content timer's callback runs.
RunnerChangeStep == timerChangeRef = 0 /\ changeRuns' = changeRuns + 1

\* C36: whenever the content timer fires, the list of changed files that
\* runnerChange classifies is not empty.
C36_RebuildHasChangedFiles == [][RunnerChangeStep => Len(watchChangedFiles) > 0]_vars

\* C37: the changed files of a content rebuild whose step list rejected stay
\* accumulated: the list is not cleared between the rejection and the next
\* runnerChange, which classifies them again.
C37_FailedFilesClassifiedAgain == [][RunnerChangeStep => failedFiles # "cleared"]_vars

(***************************************************************************)
(* The dev server and the watcher over the life of the process (SpecBuild).*)
(***************************************************************************)
\* C38: the dev server is started at most once, and once isWatching is true
\* it stays true and no step starts the server again; the watcher, which is
\* started by the step that sets isWatching, is therefore started at most
\* once too.
C38_ServerAndWatcherStartedOnce ==
    /\ [](served <= 1)
    /\ [][isWatching => (isWatching' /\ served' = served)]_vars

\* C38 witness: a watching process has run generate() again and that rebuild
\* has reached runWebServer, with one server started.
C38_Witness ==
    /\ isWatching
    /\ served = 1
    /\ generateCalls > 1
    /\ buildStep = "watching"
    /\ InLog("complete")

====
